---- MODULE Spec2Model ----
(***************************************************************************)
(* Model of the faaadmv browser automation core:                           *)
(*   - BrowserManager (core/browser.py): launch / close / scoped use       *)
(*   - CaptchaSolver  (core/captcha.py): detect / solve strategy chain     *)
(*   - CADMVProvider  (providers/ca_dmv.py): status, eligibility, fees,    *)
(*     renewal submission                                                  *)
(*   - _check_status (cli/commands/status.py) and _run_renewal             *)
(*     (cli/commands/renew.py): the two command coroutines                 *)
(*                                                                         *)
(* Every `await` of the source is one action.  The portal, the user at the *)
(* prompt, the CAPTCHA service and the interrupt signal are environment:   *)
(* their answers are drawn with \E from small sets.                        *)
(***************************************************************************)
EXTENDS Integers, Sequences, FiniteSets, TLC

(***************************************************************************)
(* Bounds and program constants                                            *)
(***************************************************************************)

\* Largest number of CAPTCHA marker kinds present on one page (model bound).
MaxMarkers == 1

\* for _ in range(24) in CaptchaSolver._solve_via_api
ApiPollLimit == 24

\* for i in range(24) in CaptchaSolver._solve_manually
ManualPollLimit == 24

\* core/captcha.py CAPTCHA_SELECTORS
CAPTCHA_SELECTORS ==
    { "iframe_recaptcha", "iframe_hcaptcha", "g_recaptcha",
      "captcha_id", "data_sitekey", "h_captcha" }

\* The marker sets a page may carry.
MarkerSets == { m \in SUBSET CAPTCHA_SELECTORS : Cardinality(m) <= MaxMarkers }

\* CaptchaSolver.detect: any selector of CAPTCHA_SELECTORS matches.
Detect(markers) == \E s \in CAPTCHA_SELECTORS : s \in markers

\* BaseProvider.has_captcha (self.page set): any selector of its own list,
\* captcha_selectors, matches.
HasCaptcha(markers) ==
    \E s \in { "iframe_recaptcha", "iframe_hcaptcha", "g_recaptcha",
                "captcha_id", "data_sitekey" } : s \in markers

\* CaptchaSolver._extract_sitekey: the result kinds the page can give.
\* "[data-sitekey]" matched: its attribute (may be the empty string);
\* else ".g-recaptcha" matched: its data-sitekey attribute, which is None
\* (an element carrying the attribute would have matched the first query);
\* else a recaptcha iframe: the k= parameter of its src, or None.
SitekeyResults(markers) ==
    IF "data_sitekey" \in markers THEN { "key", "none" }
    ELSE IF "g_recaptcha" \in markers THEN { "none" }
    ELSE IF "iframe_recaptcha" \in markers THEN { "key", "none" }
    ELSE { "none" }

(***************************************************************************)
(* State                                                                   *)
(***************************************************************************)
VARIABLES
    cmd,            \* "status" | "renew" | "solve" : which coroutine runs
    headed,         \* --headed flag (headless = ~headed)
    dry_run,        \* renew --dry-run
    api_key,        \* CaptchaSolver.api_key is set (truthy)
    payment,        \* config.payment is set (card found in the keychain)
    pc,             \* position of the command coroutine
    exc,            \* exception in flight / delivered to the caller
    intrAt,         \* pc at which the user interrupt arrived, or "none"
    closeCalls,     \* number of BrowserManager.close() invocations
    playwright,     \* BrowserManager._playwright is set (driver running)
    browser,        \* BrowserManager._browser is set (process running)
    context,        \* BrowserManager._context is set
    pageOpen,       \* provider.page is set
    page,           \* what the portal currently shows
    events,         \* provider-flow steps issued so far, in order
    opResult,       \* outcome of each provider operation
    submitCalls,    \* number of submit_renewal invocations
    cardFills,      \* number of card fields filled on the page
    cardDataSent,   \* a request carrying card data has left the browser
    confirmed,      \* answer to the payment confirmation
    receiptSaved,   \* the receipt PDF has been written
    svPc,           \* position inside CaptchaSolver.solve
    apiPolls,       \* iterations of the result poll loop
    manualPolls,    \* iterations of the manual wait loop
    apiResult,      \* "none" (not tried) | "solved" | "failed"
    manualEntered,  \* _solve_manually was entered
    solveOutcome,   \* "none" | "success" | "unresolved" | "failed"
    text,           \* argument of the text function under study
    fnResult,       \* what the function returned or raised (a record)
    calls,          \* operations a direct caller of the provider has started
    report,         \* what the command printed once asyncio.run was left
    config,         \* the UserConfig a caller of the model class holds
    call,           \* the last UserConfig method call and what it gave
    disk,           \* the encrypted config file, or its absence
    kc,             \* the OS keychain and the invocations working on it
    todo,           \* status --all: vehicles left after this one, and done
    leaked          \* a session of an earlier vehicle is still running

envVars   == << cmd, headed, dry_run, api_key, payment >>
bmVars    == << closeCalls, playwright, browser, context >>
payVars   == << submitCalls, cardFills, cardDataSent, confirmed,
                receiptSaved >>
flowVars  == << pageOpen, page, events, payVars >>
solveVars == << svPc, apiPolls, manualPolls, apiResult, manualEntered,
                solveOutcome >>
fnVars    == << text, fnResult >>
cfgVars   == << config, call >>
extVars   == << disk, kc, todo, leaked >>
libVars   == << fnVars, calls, report, cfgVars, extVars >>
vars == << envVars, pc, exc, intrAt, opResult, bmVars, flowVars, solveVars,
           libVars >>

(***************************************************************************)
(* Program positions                                                       *)
(***************************************************************************)
LaunchPcs == { "launch_playwright", "launch_browser", "launch_context",
               "launch_script", "launch_route" }
InitPcs   == { "init_page", "init_routes" }
StatusPcs == { "st_goto", "st_fingerprint", "st_captcha", "st_fill_plate",
               "st_click1", "st_nav1", "st_wait_vin", "st_fill_vin",
               "st_click2", "st_nav2", "st_vin_check", "st_parse" }
EligPcs   == { "el_goto", "el_fill_plate", "el_fill_vin", "el_click",
               "el_nav", "el_check" }
FeePcs    == { "fee_query" }
SubmitPcs == { "sb_check", "sb_fill_card", "sb_fill_cvv", "sb_fill_zip",
               "sb_click", "sb_nav", "sb_check_error", "sb_receipt" }
RenewPcs  == { "rn_captcha", "rn_solve", "rn_dry", "rn_confirm" }

\* Positions that are an await on the browser (can raise, can be cancelled).
AwaitPcs == LaunchPcs \cup InitPcs \cup { "cleanup" }
            \cup { "close_context", "close_browser", "close_playwright" }
            \cup (StatusPcs \ { "st_fingerprint" })
            \cup EligPcs \cup FeePcs
            \cup (SubmitPcs \ { "sb_check" })
            \cup { "rn_captcha" }

\* The suspension points section 5 of the specification lists.
ListedSuspensionPcs ==
    LaunchPcs                                                  \* browser launch
    \cup { "st_goto", "st_nav1", "st_nav2", "el_goto", "el_nav", "sb_nav" }
    \cup { "st_fill_plate", "st_wait_vin", "st_fill_vin",
           "el_fill_plate", "el_fill_vin" }                    \* element wait
    \cup { "rn_solve" }                                        \* CAPTCHA poll
    \cup { "sb_fill_card", "sb_fill_cvv", "sb_fill_zip" }      \* payment fill

\* Positions before the submit-payment click has been issued.
BeforeSubmitClickPcs ==
    LaunchPcs \cup InitPcs \cup StatusPcs \cup EligPcs \cup FeePcs
    \cup RenewPcs \cup { "sb_check", "sb_fill_card", "sb_fill_cvv",
                         "sb_fill_zip", "sb_click" }

\* The provider operation a position belongs to.
OpOf(p) ==
    IF p \in StatusPcs THEN "get_registration_status"
    ELSE IF p \in EligPcs THEN "validate_eligibility"
    ELSE IF p \in FeePcs THEN "get_fee_breakdown"
    ELSE IF p \in SubmitPcs THEN "submit_renewal"
    ELSE "none"

(***************************************************************************)
(* Pages the portal can show                                               *)
(***************************************************************************)
BlankPage ==
    [ screen    |-> "none",      \* which form is visible
      markers   |-> {},          \* CAPTCHA markers present
      vinMarker |-> "absent",    \* #iVinNotFound: absent | blank | text
      results   |-> "no_fieldset", \* fieldset: no_fieldset | no_text | prose
      errorMsg  |-> "absent",    \* .error-message: absent | not_found | other
      smogErr   |-> FALSE,       \* .smog-error present
      insErr    |-> FALSE,       \* .insurance-error present
      feeTable  |-> FALSE,       \* a table is present
      payErr    |-> "absent" ]   \* payment error: absent | declined | other

(***************************************************************************)
(* Initial states                                                          *)
(***************************************************************************)
\* No provider operation has been started.
NoResults ==
    [ o \in { "get_registration_status", "validate_eligibility",
              "get_fee_breakdown", "submit_renewal" } |-> "none" ]

InitBrowser ==
    /\ closeCalls = 0
    /\ playwright = FALSE
    /\ browser = FALSE
    /\ context = FALSE

InitFlow ==
    /\ pageOpen = FALSE
    /\ events = << >>
    /\ submitCalls = 0
    /\ cardFills = 0
    /\ cardDataSent = FALSE
    /\ confirmed = "none"
    /\ receiptSaved = FALSE
    /\ opResult = NoResults
    /\ exc = "none"
    /\ intrAt = "none"

InitSolve ==
    /\ apiPolls = 0
    /\ manualPolls = 0
    /\ apiResult = "none"
    /\ manualEntered = FALSE
    /\ solveOutcome = "none"

\* The function has not been called.
NotCalled == [ kind |-> "none" ]

\* No UserConfig is under study, no method of it has been called.
NoConfig == [ vehicles |-> << >> ]
NoCall == [ op |-> "none" ]

\* No text function is under study in a command run.
InitLib ==
    /\ text = << >>
    /\ fnResult = NotCalled
    /\ calls = 0
    /\ report = "none"
    /\ config = NoConfig
    /\ call = NoCall
    /\ disk = [ kind |-> "absent" ]
    /\ kc = << >>
    /\ leaked = FALSE

\* status --all: most vehicles queued behind the one being checked.
MaxQueued == 1

\* A status or renew command about to enter `async with BrowserManager(...)`.
\* run_renew leaves without starting the browser when a real run has no
\* payment (renew.py:73-79), so a non-dry-run renewal always has one.
Init ==
    /\ cmd \in { "status", "renew" }
    /\ headed \in BOOLEAN
    /\ dry_run \in (IF cmd = "renew" THEN BOOLEAN ELSE { FALSE })
    /\ api_key \in BOOLEAN
    /\ payment \in (IF cmd = "renew" /\ ~dry_run THEN { TRUE } ELSE BOOLEAN)
    /\ pc = "launch_playwright"
    /\ page = BlankPage
    /\ svPc = "idle"
    /\ InitBrowser /\ InitFlow /\ InitSolve /\ InitLib
    /\ todo \in { [ left |-> n, done |-> 0 ] :
                     n \in 0..(IF cmd = "status" THEN MaxQueued ELSE 0) }

(***************************************************************************)
(* Exceptions: where control goes when the step at pc raises               *)
(***************************************************************************)
\* launch() raising inside __aenter__: no __aexit__, straight to the caller.
\* provider.initialize() raising (async-with body, outside try): __aexit__.
\* Anything inside try: the finally clause (provider.cleanup()).
\* cleanup() raising: __aexit__.  close() raising: the caller.
HandlerOf(p) ==
    IF p \in LaunchPcs THEN "exited"
    ELSE IF p \in InitPcs THEN "aexit"
    ELSE IF p \in StatusPcs \cup EligPcs \cup FeePcs \cup SubmitPcs
                   \cup RenewPcs THEN "cleanup"
    ELSE IF p = "cleanup" THEN "aexit"
    ELSE "exited"

Raise(kind) ==
    /\ exc' = kind
    /\ pc' = HandlerOf(pc)
    /\ opResult' = IF OpOf(pc) = "none" THEN opResult
                   ELSE [ opResult EXCEPT ![OpOf(pc)] = kind ]

Goto(p) ==
    /\ pc' = p
    /\ UNCHANGED << exc, opResult >>

Log(e) == events' = Append(events, e)

(***************************************************************************)
(* BrowserManager (core/browser.py)                                        *)
(***************************************************************************)
BMFrame == UNCHANGED << envVars, intrAt, flowVars, solveVars, libVars >>

\* self._playwright = await async_playwright().start()
Launch_PlaywrightStart ==
    /\ pc = "launch_playwright"
    /\ playwright' = TRUE
    /\ Goto("launch_browser")
    /\ UNCHANGED << closeCalls, browser, context >>
    /\ BMFrame

\* self._browser = await self._playwright.chromium.launch(...)
Launch_Chromium ==
    /\ pc = "launch_browser"
    /\ browser' = TRUE
    /\ Goto("launch_context")
    /\ UNCHANGED << closeCalls, playwright, context >>
    /\ BMFrame

\* self._context = await self._browser.new_context(**context_kwargs)
Launch_NewContext ==
    /\ pc = "launch_context"
    /\ context' = TRUE
    /\ Goto("launch_script")
    /\ UNCHANGED << closeCalls, playwright, browser >>
    /\ BMFrame

\* if self.stealth: await self._context.add_init_script(...)
Launch_InitScript ==
    /\ pc = "launch_script"
    /\ Goto("launch_route")
    /\ UNCHANGED bmVars
    /\ BMFrame

\* for pattern in BLOCKED_PATTERNS: await self._context.route(...); return self
\* __aenter__ returns and the async-with body starts.
Launch_Route ==
    /\ pc = "launch_route"
    /\ Goto("init_page")
    /\ UNCHANGED bmVars
    /\ BMFrame

\* __aexit__: await self.close()
AExit ==
    /\ pc = "aexit"
    /\ closeCalls' = closeCalls + 1
    /\ Goto("close_context")
    /\ UNCHANGED << playwright, browser, context >>
    /\ BMFrame

\* if self._context: await self._context.close(); self._context = None
Close_Context ==
    /\ pc = "close_context"
    /\ context' = FALSE
    /\ Goto("close_browser")
    /\ UNCHANGED << closeCalls, playwright, browser >>
    /\ BMFrame

\* if self._browser: await self._browser.close(); self._browser = None
Close_Browser ==
    /\ pc = "close_browser"
    /\ browser' = FALSE
    /\ Goto("close_playwright")
    /\ UNCHANGED << closeCalls, playwright, context >>
    /\ BMFrame

\* close() that returns without stopping the driver.
Close_Playwright_NoStop ==
    /\ pc = "close_playwright"
    /\ Goto("exited")
    /\ UNCHANGED << closeCalls, playwright, browser, context >>
    /\ BMFrame

\* if self._playwright: await self._playwright.stop(); self._playwright = None
\* close() returns, __aexit__ returns, the exception in flight (if any)
\* continues to the caller.
Close_Playwright ==
    /\ pc = "close_playwright"
    /\ playwright' = FALSE
    /\ Goto("exited")
    /\ UNCHANGED << closeCalls, browser, context >>
    /\ BMFrame

(***************************************************************************)
(* BaseProvider.initialize / cleanup (providers/base.py)                   *)
(***************************************************************************)
ProvFrame == UNCHANGED << envVars, intrAt, bmVars, solveVars, page, events,
                          payVars, libVars >>

\* self.page = await self.context.new_page()
Provider_Initialize ==
    /\ pc = "init_page"
    /\ pageOpen' = TRUE
    /\ Goto("init_routes")
    /\ ProvFrame

\* await self._setup_request_interception(); then the try block of the
\* command coroutine starts with its first provider call.
Provider_SetupInterception ==
    /\ pc = "init_routes"
    /\ Goto(IF cmd = "status" THEN "st_goto" ELSE "el_goto")
    /\ UNCHANGED pageOpen
    /\ ProvFrame

\* finally: await provider.cleanup()
\*   if self.page: await self.page.close(); self.page = None
Provider_Cleanup ==
    /\ pc = "cleanup"
    /\ pageOpen' = FALSE
    /\ Goto("aexit")
    /\ UNCHANGED << envVars, intrAt, bmVars, solveVars, page, events,
                    payVars, libVars >>

(***************************************************************************)
(* CaptchaSolver (core/captcha.py)                                         *)
(* apiPolls and manualPolls are the loop counters of _solve_via_api and    *)
(* _solve_manually: locals, gone (0 here) once their function is left.     *)
(***************************************************************************)
SolveFrame == UNCHANGED << envVars, pc, exc, intrAt, opResult, bmVars,
                           pageOpen, events, payVars, libVars >>

\* solve() returns True.
SolveSucceeds ==
    /\ svPc' = "sv_done"
    /\ solveOutcome' = "success"
    /\ apiPolls' = 0
    /\ manualPolls' = 0

\* _solve_via_api returns False: solve() goes on to strategy 2.
ApiFails ==
    /\ apiResult' = "failed"
    /\ svPc' = "sv_strategy2"
    /\ apiPolls' = 0
    /\ UNCHANGED << solveOutcome, manualPolls >>

\* if not await self.detect(page): return True
Solve_Detect ==
    /\ svPc = "sv_detect"
    /\ IF ~Detect(page.markers)
       THEN SolveSucceeds
       ELSE /\ svPc' = "sv_strategy1"
            /\ UNCHANGED << solveOutcome, apiPolls, manualPolls >>
    /\ UNCHANGED << apiResult, manualEntered, page >>
    /\ SolveFrame

\* Strategy 1 skipped whatever the credential.
Solve_Strategy1_NoApi ==
    /\ svPc = "sv_strategy1"
    /\ svPc' = "sv_strategy2"
    /\ UNCHANGED << apiPolls, manualPolls, apiResult, manualEntered,
                    solveOutcome, page >>
    /\ SolveFrame

\* if self.api_key: solved = await self._solve_via_api(page)
Solve_Strategy1 ==
    /\ svPc = "sv_strategy1"
    /\ IF api_key
       THEN apiResult' = "running" /\ svPc' = "sv_sitekey"
       ELSE apiResult' = apiResult /\ svPc' = "sv_strategy2"
    /\ UNCHANGED << apiPolls, manualPolls, manualEntered, solveOutcome, page >>
    /\ SolveFrame

\* sitekey = await self._extract_sitekey(page); if not sitekey: return False
Api_ExtractSitekey ==
    /\ svPc = "sv_sitekey"
    /\ \E r \in SitekeyResults(page.markers) :
         IF r = "none"
         THEN ApiFails
         ELSE /\ svPc' = "sv_submit"
              /\ UNCHANGED << apiResult, solveOutcome, apiPolls, manualPolls >>
    /\ UNCHANGED << manualEntered, page >>
    /\ SolveFrame

\* submit_resp = await client.post(in.php); status != 1: return False;
\* any exception: return False
Api_Submit ==
    /\ svPc = "sv_submit"
    /\ \E ans \in { "accepted", "rejected", "exception" } :
         IF ans = "accepted"
         THEN /\ svPc' = "sv_poll"
              /\ UNCHANGED << apiResult, solveOutcome, apiPolls, manualPolls >>
         ELSE ApiFails
    /\ UNCHANGED << manualEntered, page >>
    /\ SolveFrame

\* One iteration too many: range(25).
ApiLoopContinues_OffByOne(n) == n < ApiPollLimit + 1

\* for _ in range(24): the body runs while fewer than 24 iterations ran
ApiLoopContinues(n) == n < ApiPollLimit

\* One iteration of the poll loop: sleep(5), GET res.php.
\*   status == 1                                  -> inject the token
\*   request != CAPCHA_NOT_READY, or an exception -> return False
\*   otherwise                                    -> next iteration
Api_Poll ==
    /\ svPc = "sv_poll"
    /\ ApiLoopContinues(apiPolls)
    /\ \E ans \in { "ready", "not_ready", "error", "exception" } :
         CASE ans = "ready" ->
                /\ svPc' = "sv_inject"
                /\ apiPolls' = apiPolls + 1
                /\ UNCHANGED << apiResult, solveOutcome, manualPolls >>
           [] ans = "not_ready" ->
                /\ apiPolls' = apiPolls + 1
                /\ UNCHANGED << svPc, apiResult, solveOutcome, manualPolls >>
           [] OTHER -> ApiFails
    /\ UNCHANGED << manualEntered, page >>
    /\ SolveFrame

\* The range is exhausted: the loop ends, return False (last line).
Api_PollExhausted ==
    /\ svPc = "sv_poll"
    /\ ~ApiLoopContinues(apiPolls)
    /\ ApiFails
    /\ UNCHANGED << manualEntered, page >>
    /\ SolveFrame

\* await page.evaluate(...innerHTML = token); return True
\* (an exception of evaluate is caught: return False)
Api_Inject ==
    /\ svPc = "sv_inject"
    /\ \E ok \in BOOLEAN :
         IF ok
         THEN apiResult' = "solved" /\ SolveSucceeds
         ELSE ApiFails
    /\ UNCHANGED << manualEntered, page >>
    /\ SolveFrame

\* if headed: return await self._solve_manually(page)
\* raise CaptchaDetectedError()
Solve_Strategy2 ==
    /\ svPc = "sv_strategy2"
    /\ IF headed
       THEN /\ manualEntered' = TRUE
            /\ svPc' = "sv_manual_poll"
            /\ UNCHANGED solveOutcome
       ELSE /\ svPc' = "sv_done"
            /\ solveOutcome' = "unresolved"
            /\ UNCHANGED manualEntered
    /\ UNCHANGED << apiPolls, manualPolls, apiResult, page >>
    /\ SolveFrame

\* for i in range(24)
ManualLoopContinues(n) == n < ManualPollLimit

\* One iteration of the manual wait: sleep(5), detect again.  The user may
\* have solved the CAPTCHA meanwhile (the markers are gone).
Manual_Poll ==
    /\ svPc = "sv_manual_poll"
    /\ ManualLoopContinues(manualPolls)
    /\ \E m \in { page.markers, {} } :
         /\ page' = [ page EXCEPT !.markers = m ]
         /\ IF ~Detect(m)
            THEN SolveSucceeds
            ELSE /\ manualPolls' = manualPolls + 1
                 /\ UNCHANGED << svPc, solveOutcome, apiPolls >>
    /\ UNCHANGED << apiResult, manualEntered >>
    /\ SolveFrame

\* The range is exhausted: raise CaptchaSolveFailedError("manual")
Manual_PollExhausted ==
    /\ svPc = "sv_manual_poll"
    /\ ~ManualLoopContinues(manualPolls)
    /\ svPc' = "sv_done"
    /\ solveOutcome' = "failed"
    /\ manualPolls' = 0
    /\ UNCHANGED << apiPolls, apiResult, manualEntered, page >>
    /\ SolveFrame

\* Positions of solve() suspended on the page outside any try block.
SolvePageAwaitPcs == { "sv_detect", "sv_sitekey", "sv_manual_poll" }

\* Positions of solve() suspended on an await.
SolveAwaitPcs == SolvePageAwaitPcs \cup { "sv_submit", "sv_poll", "sv_inject" }

(***************************************************************************)
(* CADMVProvider.get_registration_status (providers/ca_dmv.py)             *)
(***************************************************************************)
FlowFrame == UNCHANGED << envVars, intrAt, bmVars, solveVars, pageOpen,
                          libVars >>

\* await self.page.goto(STATUS_URL); await wait_for_load_state(...)
St_Goto ==
    /\ pc = "st_goto"
    /\ \E p \in
         { [ BlankPage EXCEPT !.screen = s, !.markers = m ] :
             s \in { "PlateEntry", "Other" }, m \in MarkerSets } :
         page' = p
    /\ Log("nav")
    /\ Goto("st_fingerprint")
    /\ UNCHANGED payVars
    /\ FlowFrame

\* fingerprint = await self.collect_fingerprint()
\* The method is called here but defined in no file of the source tree:
\* the call either raises or hands back a value that is only logged.
St_Fingerprint ==
    /\ pc = "st_fingerprint"
    /\ \E r \in { "returns", "raises" } :
         IF r = "returns" THEN Goto("st_captcha") ELSE Raise("AttributeError")
    /\ UNCHANGED << page, events, payVars >>
    /\ FlowFrame

\* if await self.has_captcha(): raise CaptchaDetectedError()
St_CaptchaCheck ==
    /\ pc = "st_captcha"
    /\ Log("captcha")
    /\ IF HasCaptcha(page.markers)
       THEN Raise("CaptchaDetected")
       ELSE Goto("st_fill_plate")
    /\ UNCHANGED << page, payVars >>
    /\ FlowFrame

\* await self.fill_field(selectors["status_plate_input"], plate)
\* (wait_for_selector visible, then fill: possible on the plate form only)
St_FillPlate ==
    /\ pc = "st_fill_plate"
    /\ page.screen = "PlateEntry"
    /\ Log("fill_plate")
    /\ Goto("st_click1")
    /\ UNCHANGED << page, payVars >>
    /\ FlowFrame

\* The VIN step started right after the click, without awaiting the
\* navigation (a plausible slip).
St_Click1_NoWait ==
    /\ pc = "st_click1"
    /\ Log("submit")
    /\ Goto("st_fill_vin")
    /\ page' = [ page EXCEPT !.screen = "VinEntry" ]
    /\ UNCHANGED payVars
    /\ FlowFrame

\* async with self.page.expect_navigation(...): await self.page.click(...)
St_Click1 ==
    /\ pc = "st_click1"
    /\ Log("submit")
    /\ Goto("st_nav1")
    /\ UNCHANGED << page, payVars >>
    /\ FlowFrame

\* response = await nav.value : the navigation has settled; the portal
\* shows the VIN form, or (rarely) the plate form again.
St_Nav1 ==
    /\ pc = "st_nav1"
    /\ \E p \in
         { [ BlankPage EXCEPT !.screen = s, !.markers = m ] :
             s \in { "PlateEntry", "VinEntry" }, m \in MarkerSets } :
         page' = p
    /\ Log("nav")
    /\ Goto("st_wait_vin")
    /\ UNCHANGED payVars
    /\ FlowFrame

\* await self.page.wait_for_selector(status_vin_input, state="visible")
St_WaitVin ==
    /\ pc = "st_wait_vin"
    /\ page.screen = "VinEntry"
    /\ Goto("st_fill_vin")
    /\ UNCHANGED << page, events, payVars >>
    /\ FlowFrame

\* await self.fill_field(selectors["status_vin_input"], vin_last5)
St_FillVin ==
    /\ pc = "st_fill_vin"
    /\ page.screen = "VinEntry"
    /\ Log("fill_vin")
    /\ Goto("st_click2")
    /\ UNCHANGED << page, payVars >>
    /\ FlowFrame

\* async with self.page.expect_navigation(...): await self.page.click(...)
St_Click2 ==
    /\ pc = "st_click2"
    /\ Log("submit")
    /\ Goto("st_nav2")
    /\ UNCHANGED << page, payVars >>
    /\ FlowFrame

\* response = await nav.value : the results page, or the VIN form again.
St_Nav2 ==
    /\ pc = "st_nav2"
    /\ \E p \in
         { [ BlankPage EXCEPT !.screen = s, !.markers = m, !.vinMarker = v,
                              !.results = r ] :
             s \in { "VinEntry", "Results" }, m \in MarkerSets,
             v \in { "absent", "blank", "text" },
             r \in { "no_fieldset", "no_text", "prose" } } :
         page' = p
    /\ Log("nav")
    /\ Goto("st_vin_check")
    /\ UNCHANGED payVars
    /\ FlowFrame

\* The marker is never looked at (a plausible slip).
VinNotFound_Ignored(p) == FALSE

\* vin_error = query_selector("#iVinNotFound")
\* if vin_error: error_text = inner_text(); if error_text.strip(): ...
VinNotFound(p) == p.vinMarker = "text"

\* ... raise VehicleNotFoundError(plate); otherwise go on to parse.
St_VinCheck ==
    /\ pc = "st_vin_check"
    /\ Log("check_vin")
    /\ IF VinNotFound(page)
       THEN Raise("VehicleNotFound")
       ELSE Goto("st_parse")
    /\ UNCHANGED << page, payVars >>
    /\ FlowFrame

\* return await self._parse_status_results(plate, vin_last5)
\*   no fieldset -> DMVError; no non-empty paragraph -> DMVError;
\*   otherwise a RegistrationStatus is returned (try body ends, finally runs)
St_Parse ==
    /\ pc = "st_parse"
    /\ Log("parse_results")
    /\ IF page.results = "prose"
       THEN /\ pc' = "cleanup"
            /\ opResult' = [ opResult EXCEPT !["get_registration_status"] =
                                                 "returned" ]
            /\ UNCHANGED exc
       ELSE Raise("DMVError")
    /\ UNCHANGED << page, payVars >>
    /\ FlowFrame

(***************************************************************************)
(* CADMVProvider.validate_eligibility / get_fee_breakdown                  *)
(***************************************************************************)
\* await self.page.goto(RENEW_URL); await self.wait_for_navigation()
El_Goto ==
    /\ pc = "el_goto"
    /\ \E p \in
         { [ BlankPage EXCEPT !.screen = s, !.markers = m ] :
             s \in { "RenewEntry", "Other" }, m \in MarkerSets } :
         page' = p
    /\ Log("nav")
    /\ Goto("el_fill_plate")
    /\ UNCHANGED payVars
    /\ FlowFrame

\* await self.fill_field(selectors["renew_plate_input"], plate)
El_FillPlate ==
    /\ pc = "el_fill_plate"
    /\ page.screen = "RenewEntry"
    /\ Log("fill_plate")
    /\ Goto("el_fill_vin")
    /\ UNCHANGED << page, payVars >>
    /\ FlowFrame

\* await self.fill_field(selectors["renew_vin_input"], vin_last5)
El_FillVin ==
    /\ pc = "el_fill_vin"
    /\ page.screen = "RenewEntry"
    /\ Log("fill_vin")
    /\ Goto("el_click")
    /\ UNCHANGED << page, payVars >>
    /\ FlowFrame

\* await self.click_and_wait(...): await self.page.click(selector)
El_Click ==
    /\ pc = "el_click"
    /\ Log("submit")
    /\ Goto("el_nav")
    /\ UNCHANGED << page, payVars >>
    /\ FlowFrame

\* ... await self.wait_for_navigation()
El_Nav ==
    /\ pc = "el_nav"
    /\ \E p \in
         { [ BlankPage EXCEPT !.screen = s, !.markers = m, !.errorMsg = e,
                              !.smogErr = sm, !.insErr = ins, !.feeTable = ft ] :
             s \in { "Payment", "Other" }, m \in MarkerSets,
             e \in { "absent", "not_found", "other" },
             sm \in BOOLEAN, ins \in BOOLEAN, ft \in BOOLEAN } :
         page' = p
    /\ Log("nav")
    /\ Goto("el_check")
    /\ UNCHANGED payVars
    /\ FlowFrame

\* error_el with "not found" -> VehicleNotFoundError
\* smog_error present        -> SmogCheckError
\* insurance_error present   -> InsuranceError
\* otherwise return EligibilityResult(eligible=True, ...)
El_Check ==
    /\ pc = "el_check"
    /\ Log("parse_errors")
    /\ IF page.errorMsg = "not_found" THEN Raise("VehicleNotFound")
       ELSE IF page.smogErr THEN Raise("SmogCheck")
       ELSE IF page.insErr THEN Raise("Insurance")
       ELSE /\ pc' = "rn_captcha"
            /\ opResult' = [ opResult EXCEPT !["validate_eligibility"] =
                                                 "returned" ]
            /\ UNCHANGED exc
    /\ UNCHANGED << page, payVars >>
    /\ FlowFrame

\* fee_table = query_selector(...); if not fee_table: raise DMVError
\* ... return FeeBreakdown(items=items)
Fee_Query ==
    /\ pc = "fee_query"
    /\ Log("parse_fees")
    /\ IF page.feeTable
       THEN /\ pc' = "rn_dry"
            /\ opResult' = [ opResult EXCEPT !["get_fee_breakdown"] =
                                                 "returned" ]
            /\ UNCHANGED exc
       ELSE Raise("DMVError")
    /\ UNCHANGED << page, payVars >>
    /\ FlowFrame

(***************************************************************************)
(* _run_renewal (cli/commands/renew.py), between the provider calls        *)
(***************************************************************************)
\* if await provider.has_captcha():
\*     solved = await captcha_solver.solve(provider.page, headed=headed)
Rn_CaptchaCheck ==
    /\ pc = "rn_captcha"
    /\ Log("captcha")
    /\ IF HasCaptcha(page.markers)
       THEN Goto("rn_solve") /\ svPc' = "sv_detect"
       ELSE Goto("fee_query") /\ svPc' = svPc
    /\ UNCHANGED << apiPolls, manualPolls, apiResult, manualEntered,
                    solveOutcome >>
    /\ UNCHANGED << envVars, intrAt, bmVars, pageOpen, page, payVars,
                    libVars >>

\* solve() has ended: True -> go on to the fees; CaptchaDetectedError or
\* CaptchaSolveFailedError -> propagates.
Rn_SolveReturn ==
    /\ pc = "rn_solve"
    /\ svPc = "sv_done"
    /\ svPc' = "idle"
    /\ CASE solveOutcome = "success"    -> Goto("fee_query")
         [] solveOutcome = "unresolved" -> Raise("CaptchaDetected")
         [] OTHER                       -> Raise("CaptchaSolveFailed")
    /\ UNCHANGED << apiPolls, manualPolls, apiResult, manualEntered,
                    solveOutcome >>
    /\ UNCHANGED << envVars, intrAt, bmVars, pageOpen, page, events, payVars,
                    libVars >>

\* The dry-run return left out (a plausible slip).
Rn_DryRun_FallsThrough ==
    /\ pc = "rn_dry"
    /\ Goto("rn_confirm")
    /\ UNCHANGED << page, events, payVars >>
    /\ FlowFrame

\* if dry_run: ... return
Rn_DryRun ==
    /\ pc = "rn_dry"
    /\ Goto(IF dry_run THEN "cleanup" ELSE "rn_confirm")
    /\ UNCHANGED << page, events, payVars >>
    /\ FlowFrame

\* if not Confirm.ask(...): raise typer.Exit(0)
\* result = await provider.submit_renewal(config)
Rn_Confirm ==
    /\ pc = "rn_confirm"
    /\ \E answer \in { "yes", "no" } :
         /\ confirmed' = answer
         /\ IF answer = "yes"
            THEN Goto("sb_check") /\ submitCalls' = submitCalls + 1
            ELSE Raise("Exit0") /\ submitCalls' = submitCalls
    /\ UNCHANGED << page, events, cardFills, cardDataSent, receiptSaved >>
    /\ FlowFrame

(***************************************************************************)
(* CADMVProvider.submit_renewal                                            *)
(***************************************************************************)
\* if not config.payment: raise DMVError("Payment information not provided")
Sb_Check ==
    /\ pc = "sb_check"
    /\ IF payment THEN Goto("sb_fill_card") ELSE Raise("DMVError")
    /\ UNCHANGED << page, events, payVars >>
    /\ FlowFrame

\* One card field filled: fill_field(selector, value)
FillCardField(next) ==
    /\ page.screen = "Payment"
    /\ cardFills' = cardFills + 1
    /\ Log("fill_card")
    /\ Goto(next)
    /\ UNCHANGED << page, submitCalls, cardDataSent, confirmed, receiptSaved >>
    /\ FlowFrame

\* await self.fill_field("#cardNumber", ...)
Sb_FillCard == pc = "sb_fill_card" /\ FillCardField("sb_fill_cvv")

\* await self.fill_field("#cvv", ...)
Sb_FillCvv == pc = "sb_fill_cvv" /\ FillCardField("sb_fill_zip")

\* await self.fill_field("#billingZip", ...)
Sb_FillZip == pc = "sb_fill_zip" /\ FillCardField("sb_click")

\* await self.click_and_wait("button[type='submit']"): the click posts the
\* payment form
Sb_Click ==
    /\ pc = "sb_click"
    /\ cardDataSent' = TRUE
    /\ Log("submit")
    /\ Goto("sb_nav")
    /\ UNCHANGED << page, submitCalls, cardFills, confirmed, receiptSaved >>
    /\ FlowFrame

\* ... await self.wait_for_navigation()
Sb_Nav ==
    /\ pc = "sb_nav"
    /\ \E p \in
         { [ BlankPage EXCEPT !.screen = "Confirmation", !.markers = m,
                              !.payErr = e ] :
             m \in MarkerSets, e \in { "absent", "declined", "other" } } :
         page' = p
    /\ Log("nav")
    /\ Goto("sb_check_error")
    /\ UNCHANGED payVars
    /\ FlowFrame

\* error_el: "declined" in text -> PaymentDeclinedError; else DMVError(text)
Sb_CheckError ==
    /\ pc = "sb_check_error"
    /\ Log("parse_errors")
    /\ CASE page.payErr = "declined" -> Raise("PaymentDeclined")
         [] page.payErr = "other"    -> Raise("DMVError")
         [] OTHER                    -> Goto("sb_receipt")
    /\ UNCHANGED << page, payVars >>
    /\ FlowFrame

\* await self.save_pdf(receipt_path); return RenewalResult(success=True, ...)
Sb_Receipt ==
    /\ pc = "sb_receipt"
    /\ receiptSaved' = TRUE
    /\ pc' = "cleanup"
    /\ opResult' = [ opResult EXCEPT !["submit_renewal"] = "returned" ]
    /\ UNCHANGED << exc, page, events, submitCalls, cardFills, cardDataSent,
                    confirmed >>
    /\ FlowFrame

(***************************************************************************)
(* Environment: a browser operation fails, the user interrupts             *)
(***************************************************************************)
\* The command coroutine is suspended on an await (its own, or one inside
\* solve(): the listed positions of solve() for page calls outside a try).
Suspended(svAwaits) ==
    \/ pc \in AwaitPcs
    \/ pc = "rn_solve" /\ svPc \in svAwaits

\* An exception leaves solve() when it is raised inside it.
Abort(kind) ==
    /\ Raise(kind)
    /\ svPc' = IF pc = "rn_solve" THEN "idle" ELSE svPc
    /\ apiPolls' = 0
    /\ manualPolls' = 0
    /\ UNCHANGED << apiResult, manualEntered, solveOutcome >>
    /\ UNCHANGED << envVars, bmVars, flowVars, libVars >>

\* The awaited Playwright call raises (launch failure, navigation failure,
\* timeout waiting for a selector, target closed).
StepFails ==
    /\ Suspended(SolvePageAwaitPcs)
    /\ Abort("PlaywrightError")
    /\ UNCHANGED intrAt

\* Ctrl-C: asyncio.run cancels the main task; CancelledError is raised at
\* the await the coroutine is suspended on.  At most one per run.
Interrupt ==
    /\ Suspended(SolveAwaitPcs)
    /\ intrAt = "none"
    /\ intrAt' = pc
    /\ Abort("Cancelled")

(***************************************************************************)
(* Exception classes (exceptions.py) and the except chains of the          *)
(* commands (cli/commands/status.py, cli/commands/renew.py)                *)
(***************************************************************************)
\* The base class of each exception class.  The short names are the kinds
\* the steps above raise; PlaywrightError is playwright's own Error (its
\* TimeoutError included), a plain Exception; typer.Exit is a RuntimeError;
\* a cancellation caused by Ctrl-C leaves asyncio.run as KeyboardInterrupt.
Parent ==
    [ CaptchaDetected       |-> "CaptchaError",
      CaptchaSolveFailed    |-> "CaptchaError",
      CaptchaError          |-> "FaaadmvError",
      NavigationError       |-> "BrowserError",
      TimeoutError          |-> "BrowserError",
      SelectorNotFoundError |-> "BrowserError",
      BrowserError          |-> "FaaadmvError",
      VehicleNotFound       |-> "DMVError",
      EligibilityError      |-> "DMVError",
      SmogCheck             |-> "DMVError",
      Insurance             |-> "DMVError",
      PaymentDeclined       |-> "PaymentError",
      PaymentError          |-> "DMVError",
      DMVError              |-> "FaaadmvError",
      FaaadmvError          |-> "Exception",
      PlaywrightError       |-> "Exception",
      AttributeError        |-> "Exception",
      Exit0                 |-> "Exit",
      Exit                  |-> "Exception",
      Cancelled             |-> "KeyboardInterrupt",
      KeyboardInterrupt     |-> "BaseException",
      Exception             |-> "BaseException" ]

\* isinstance(k(), c)
RECURSIVE IsA(_, _)
IsA(k, c) ==
    \/ k = c
    \/ k \in DOMAIN Parent /\ IsA(Parent[k], c)

\* _run_single_status: the except clauses in source order
StatusHandlers ==
    << << "CaptchaDetected", "captcha_hint" >>,
       << "VehicleNotFound", "error_panel" >>,
       << "BrowserError", "browser_hint" >>,
       << "DMVError", "error_panel" >>,
       << "FaaadmvError", "error_panel" >>,
       << "KeyboardInterrupt", "cancelled" >>,
       << "Exception", "unexpected" >> >>

\* run_renew: the except clauses in source order
RenewHandlers ==
    << << "CaptchaDetected", "captcha_hint" >>,
       << "CaptchaSolveFailed", "captcha_failed" >>,
       << "SmogCheck", "error_panel" >>,
       << "Insurance", "error_panel" >>,
       << "EligibilityError", "error_panel" >>,
       << "PaymentDeclined", "error_panel" >>,
       << "PaymentError", "error_panel" >>,
       << "VehicleNotFound", "error_panel" >>,
       << "BrowserError", "browser_hint" >>,
       << "DMVError", "error_panel" >>,
       << "FaaadmvError", "error_panel" >>,
       << "KeyboardInterrupt", "cancelled" >>,
       << "Exit", "exit" >>,
       << "Exception", "unexpected" >> >>

\* try: asyncio.run(...) except ...: the first clause whose class the
\* exception is an instance of
ReportOf(handlers, e) ==
    IF e = "none" THEN "completed"
    ELSE IF \E i \in 1..Len(handlers) : IsA(e, handlers[i][1])
    THEN handlers[CHOOSE i \in 1..Len(handlers) :
                      /\ IsA(e, handlers[i][1])
                      /\ \A j \in 1..(i - 1) : ~IsA(e, handlers[j][1])][2]
    ELSE "propagates"

\* asyncio.run has returned or raised: the command prints the result or
\* the error panel its except chain selects.
Cmd_Report ==
    /\ pc = "exited"
    /\ cmd \in { "status", "renew" }
    /\ pc' = "reported"
    /\ report' = ReportOf(IF cmd = "status" THEN StatusHandlers
                                            ELSE RenewHandlers, exc)
    /\ UNCHANGED << envVars, exc, intrAt, opResult, bmVars, flowVars,
                    solveVars, fnVars, calls, cfgVars,
                    extVars >>

\* status --all with the report guard left out: the loop goes on to the
\* next vehicle whatever the last check reported.
Cmd_NextVehicle_AfterError ==
    /\ pc = "reported"
    /\ cmd = "status"
    /\ todo.left > 0
    /\ todo' = [ left |-> todo.left - 1, done |-> todo.done + 1 ]
    /\ leaked' = (leaked \/ playwright \/ browser \/ context)
    /\ closeCalls' = 0
    /\ playwright' = FALSE
    /\ browser' = FALSE
    /\ context' = FALSE
    /\ pc' = "launch_playwright"
    /\ page' = BlankPage
    /\ pageOpen' = FALSE
    /\ events' = << >>
    /\ opResult' = NoResults
    /\ exc' = "none"
    /\ intrAt' = "none"
    /\ report' = "none"
    /\ UNCHANGED << envVars, payVars, solveVars, fnVars, calls, cfgVars,
                    disk, kc >>

\* run_status, --all: for entry in config.vehicles:
\* _run_single_status(entry, ...) has returned (every except clause of it
\* raises typer.Exit(1), so it returns only after _display_status), and
\* the loop calls it for the next entry: asyncio.run(_check_status(...))
\* with a new BrowserManager and a new provider.  What the previous
\* manager still had running stays running.
Cmd_NextVehicle ==
    /\ pc = "reported"
    /\ cmd = "status"
    /\ report = "completed"
    /\ todo.left > 0
    /\ todo' = [ left |-> todo.left - 1, done |-> todo.done + 1 ]
    /\ leaked' = (leaked \/ playwright \/ browser \/ context)
    /\ closeCalls' = 0
    /\ playwright' = FALSE
    /\ browser' = FALSE
    /\ context' = FALSE
    /\ pc' = "launch_playwright"
    /\ page' = BlankPage
    /\ pageOpen' = FALSE
    /\ events' = << >>
    /\ opResult' = NoResults
    /\ exc' = "none"
    /\ intrAt' = "none"
    /\ report' = "none"
    /\ UNCHANGED << envVars, payVars, solveVars, fnVars, calls, cfgVars,
                    disk, kc >>

(***************************************************************************)
(* Specifications                                                          *)
(***************************************************************************)
SolveNext ==
    \/ Solve_Detect \/ Solve_Strategy1 \/ Api_ExtractSitekey \/ Api_Submit
    \/ Api_Poll \/ Api_PollExhausted \/ Api_Inject \/ Solve_Strategy2
    \/ Manual_Poll \/ Manual_PollExhausted

Next ==
    \/ Launch_PlaywrightStart \/ Launch_Chromium \/ Launch_NewContext
    \/ Launch_InitScript \/ Launch_Route
    \/ AExit \/ Close_Context \/ Close_Browser \/ Close_Playwright
    \/ Provider_Initialize \/ Provider_SetupInterception \/ Provider_Cleanup
    \/ St_Goto \/ St_Fingerprint \/ St_CaptchaCheck \/ St_FillPlate
    \/ St_Click1 \/ St_Nav1 \/ St_WaitVin \/ St_FillVin \/ St_Click2
    \/ St_Nav2 \/ St_VinCheck \/ St_Parse
    \/ El_Goto \/ El_FillPlate \/ El_FillVin \/ El_Click \/ El_Nav
    \/ El_Check \/ Rn_CaptchaCheck \/ Rn_SolveReturn \/ Fee_Query
    \/ Rn_DryRun \/ Rn_Confirm
    \/ Sb_Check \/ Sb_FillCard \/ Sb_FillCvv \/ Sb_FillZip \/ Sb_Click
    \/ Sb_Nav \/ Sb_CheckError \/ Sb_Receipt
    \/ SolveNext
    \/ StepFails \/ Interrupt \/ Cmd_Report \/ Cmd_NextVehicle

\* One status or renew command, from the launch of the browser to the
\* return to asyncio.run's caller.
Spec == Init /\ [][Next]_vars

\* One call of CaptchaSolver.solve on a page, for every page, credential
\* and mode; the page and the solving service answer as they like.
SolveInit ==
    /\ cmd = "solve"
    /\ headed \in BOOLEAN
    /\ dry_run = FALSE
    /\ api_key \in BOOLEAN
    /\ payment = FALSE
    /\ pc = "solve_call"
    /\ page \in { [ BlankPage EXCEPT !.markers = m ] : m \in MarkerSets }
    /\ svPc = "sv_detect"
    /\ InitBrowser /\ InitFlow /\ InitSolve /\ InitLib
    /\ todo = [ left |-> 0, done |-> 0 ]

\* The event loop keeps running the coroutine: every enabled step of
\* solve() is eventually taken.
SolveSpec == SolveInit /\ [][SolveNext]_vars /\ WF_vars(SolveNext)

(***************************************************************************)
(* Text: a Python str is a sequence of one-character strings               *)
(***************************************************************************)
\* str.lower() on the letters of the alphabet; every other character is
\* left as it is.
UpperLower ==
    { << "A", "a" >>, << "B", "b" >>, << "C", "c" >>, << "D", "d" >>,
      << "E", "e" >>, << "F", "f" >>, << "G", "g" >>, << "H", "h" >>,
      << "I", "i" >>, << "J", "j" >>, << "K", "k" >>, << "L", "l" >>,
      << "M", "m" >>, << "N", "n" >>, << "O", "o" >>, << "P", "p" >>,
      << "Q", "q" >>, << "R", "r" >>, << "S", "s" >>, << "T", "t" >>,
      << "U", "u" >>, << "V", "v" >>, << "W", "w" >>, << "X", "x" >>,
      << "Y", "y" >>, << "Z", "z" >> }

\* text.lower()
Lower(t) ==
    [ i \in 1..Len(t) |->
        IF \E q \in UpperLower : q[1] = t[i]
        THEN (CHOOSE q \in UpperLower : q[1] = t[i])[2]
        ELSE t[i] ]

\* `p in t` for a non-empty p: p occurs in t as a contiguous substring
Contains(t, p) ==
    \E i \in 1..(Len(t) - Len(p) + 1) : SubSeq(t, i, i + Len(p) - 1) = p

\* "".join(parts) for a sequence of strings
RECURSIVE Join(_)
Join(parts) ==
    IF parts = << >> THEN << >> ELSE Head(parts) \o Join(Tail(parts))

(***************************************************************************)
(* CADMVProvider._determine_status_from_text (providers/ca_dmv.py)         *)
(***************************************************************************)
\* The literals the function looks for.
Lit ==
    [ has_been_mailed |->
          << "h", "a", "s", " ", "b", "e", "e", "n", " ", "m", "a", "i",
          "l", "e", "d" >>,
      was_mailed |->
          << "w", "a", "s", " ", "m", "a", "i", "l", "e", "d" >>,
      items_due |->
          << "i", "t", "e", "m", "s", " ", "d", "u", "e" >>,
      action_is_required |->
          << "a", "c", "t", "i", "o", "n", " ", "i", "s", " ", "r", "e",
          "q", "u", "i", "r", "e", "d" >>,
      no_further_action |->
          << "n", "o", " ", "f", "u", "r", "t", "h", "e", "r", " ", "a",
          "c", "t", "i", "o", "n" >>,
      in_progress |->
          << "i", "n", " ", "p", "r", "o", "g", "r", "e", "s", "s" >>,
      not_yet_been_mailed |->
          << "n", "o", "t", " ", "y", "e", "t", " ", "b", "e", "e", "n",
          " ", "m", "a", "i", "l", "e", "d" >>,
      not_yet_received |->
          << "n", "o", "t", " ", "y", "e", "t", " ", "r", "e", "c", "e",
          "i", "v", "e", "d" >>,
      expired |->
          << "e", "x", "p", "i", "r", "e", "d" >> ]

\* Largest number of pieces in one text under study (model bound).
MaxFragments == 2

\* The texts under study, put together from pieces of portal prose: the
\* literals, the literals in other spellings, the words that turn one
\* literal into another, and prose that matches nothing.
Texts ==
    LET Fragments ==
        { Lit[k] : k \in DOMAIN Lit } \union
        { << "H", "A", "S", " ", "B", "E", "E", "N", " ", "M", "A", "I", "L",
          "E", "D" >>,
          << "W", "a", "s", " ", "M", "a", "i", "l", "e", "d" >>,
          << "I", "t", "e", "m", "s", " ", "D", "u", "e" >>,
          << "A", "c", "t", "i", "o", "n", " ", "i", "s", " ", "r", "e", "q",
          "u", "i", "r", "e", "d" >>,
          << "N", "o", " ", "f", "u", "r", "t", "h", "e", "r", " " >>,
          << "I", "N", " ", "P", "R", "O", "G", "R", "E", "S", "S" >>,
          << "N", "o", "t", " ", "Y", "e", "t", " ", "R", "e", "c", "e", "i",
          "v", "e", "d" >>,
          << "E", "x", "p", "i", "r", "e", "d" >>,
          << "h", "a", "s", " " >>,
          << "u", "n" >>,
          << ".", " " >>,
          << "r", "e", "g", "i", "s", "t", "r", "a", "t", "i", "o", "n", " ",
          "c", "a", "r", "d" >> }
    IN  { Join(fs) :
            fs \in UNION { [ 1..n -> Fragments ] : n \in 0..MaxFragments } }

\* "expired" is looked for before the pending literals (a plausible slip).
determine_status_from_text_ExpiredFirst(t) ==
    LET text_lower == Lower(t) IN
    IF Contains(text_lower, Lit.has_been_mailed)
       \/ Contains(text_lower, Lit.was_mailed)
    THEN "CURRENT"
    ELSE IF Contains(text_lower, Lit.items_due)
            \/ Contains(text_lower, Lit.action_is_required)
    THEN IF Contains(text_lower, Lit.no_further_action)
         THEN "PENDING"
         ELSE "HOLD"
    ELSE IF Contains(text_lower, Lit.expired)
    THEN "EXPIRED"
    ELSE "PENDING"

\* text_lower = text.lower(), then the chain of `if ... in text_lower`
determine_status_from_text(t) ==
    LET text_lower == Lower(t) IN
    IF Contains(text_lower, Lit.has_been_mailed)
       \/ Contains(text_lower, Lit.was_mailed)
    THEN "CURRENT"
    ELSE IF Contains(text_lower, Lit.items_due)
            \/ Contains(text_lower, Lit.action_is_required)
    THEN IF Contains(text_lower, Lit.no_further_action)
         THEN "PENDING"
         ELSE "HOLD"
    ELSE IF Contains(text_lower, Lit.in_progress)
            \/ Contains(text_lower, Lit.not_yet_been_mailed)
    THEN "PENDING"
    ELSE IF Contains(text_lower, Lit.not_yet_received)
    THEN "PENDING"
    ELSE IF Contains(text_lower, Lit.expired)
    THEN "EXPIRED"
    ELSE "PENDING"

\* The command variables of a study that runs no command.
runVars == << envVars, pc, exc, intrAt, opResult, bmVars, flowVars,
              solveVars >>

IdleRun(name) ==
    /\ cmd = name
    /\ headed = FALSE
    /\ dry_run = FALSE
    /\ api_key = FALSE
    /\ payment = FALSE
    /\ pc = "idle"
    /\ page = BlankPage
    /\ svPc = "idle"
    /\ InitBrowser /\ InitFlow /\ InitSolve

\* status = self._determine_status_from_text(full_text)
DetermineStatus_Call ==
    /\ cmd = "classify"
    /\ fnResult = NotCalled
    /\ fnResult' = [ kind |-> "status",
                     status |-> determine_status_from_text(text) ]
    /\ UNCHANGED << runVars, text, calls, report, cfgVars, extVars >>

ClassifyInit ==
    /\ IdleRun("classify")
    /\ text \in Texts
    /\ fnResult = NotCalled
    /\ calls = 0
    /\ report = "none"
    /\ config = NoConfig
    /\ call = NoCall
    /\ disk = [ kind |-> "absent" ]
    /\ kc = << >>
    /\ todo = [ left |-> 0, done |-> 0 ]
    /\ leaked = FALSE

\* _determine_status_from_text applied once to each text under study.
ClassifySpec == ClassifyInit /\ [][DetermineStatus_Call]_vars

(***************************************************************************)
(* CADMVProvider._parse_status_results (providers/ca_dmv.py)               *)
(***************************************************************************)
\* text.strip(): leading and trailing whitespace removed.
strip(t) ==
    LET ws(c) == c \in { " ", "\n", "\t" }
        keep == { i \in 1..Len(t) : ~ws(t[i]) }
    IN  IF keep = {} THEN << >>
        ELSE LET lo == CHOOSE i \in keep : \A j \in keep : i <= j
                 hi == CHOOSE i \in keep : \A j \in keep : j <= i
             IN  SubSeq(t, lo, hi)

\* sep.join(parts)
RECURSIVE join(_, _)
join(sep, parts) ==
    IF parts = << >> THEN << >>
    ELSE IF Len(parts) = 1 THEN parts[1]
    ELSE parts[1] \o sep \o join(sep, Tail(parts))

\* Largest number of <p> elements in the results fieldset (model bound).
MaxParagraphs == 2

\* _parse_status_results without the `if not all_text` check.
parse_status_results_NoTextCheck(p, plate, vin_last5) ==
    IF ~p.page THEN [ kind |-> "DMVError", msg |-> "Browser not initialized" ]
    ELSE IF ~p.fieldset
    THEN [ kind |-> "DMVError", msg |-> "Could not parse DMV response" ]
    ELSE
      LET all_text == SelectSeq([ i \in 1..Len(p.paragraphs) |->
                                    strip(p.paragraphs[i]) ],
                                LAMBDA cleaned : cleaned # << >>)
          full_text == join(<< " " >>, all_text)
      IN  [ kind |-> "status",
            status |->
              [ plate |-> plate,
                vin_last5 |-> vin_last5,
                vehicle_description |-> "None",
                expiration_date |-> "None",
                status |-> determine_status_from_text(full_text),
                days_until_expiry |-> "None",
                hold_reason |-> "None",
                status_message |-> join(<< "\n" >>, all_text),
                last_updated |-> IF p.span = "date" THEN "date"
                                                   ELSE "None" ] ]

\* CADMVProvider._parse_status_results(plate, vin_last5) on a page p:
\* p.page (self.page is set), p.fieldset (a <fieldset> is present),
\* p.paragraphs (the inner texts of its <p> elements, in order), p.span
\* (the bold span: absent, a date _parse_date reads, or other text).  The
\* fields the constructor call does not pass keep their default None.
parse_status_results(p, plate, vin_last5) ==
    IF ~p.page THEN [ kind |-> "DMVError", msg |-> "Browser not initialized" ]
    ELSE IF ~p.fieldset
    THEN [ kind |-> "DMVError", msg |-> "Could not parse DMV response" ]
    ELSE
      LET all_text == SelectSeq([ i \in 1..Len(p.paragraphs) |->
                                    strip(p.paragraphs[i]) ],
                                LAMBDA cleaned : cleaned # << >>)
          full_text == join(<< " " >>, all_text)
      IN  IF all_text = << >>
          THEN [ kind |-> "DMVError",
                 msg |-> "No status information found" ]
          ELSE [ kind |-> "status",
                 status |->
                   [ plate |-> plate,
                     vin_last5 |-> vin_last5,
                     vehicle_description |-> "None",
                     expiration_date |-> "None",
                     status |-> determine_status_from_text(full_text),
                     days_until_expiry |-> "None",
                     hold_reason |-> "None",
                     status_message |-> join(<< "\n" >>, all_text),
                     last_updated |-> IF p.span = "date" THEN "date"
                                                        ELSE "None" ] ]

\* return await self._parse_status_results(plate, vin_last5)
ParseStatusResults_Call ==
    /\ cmd = "parse"
    /\ fnResult = NotCalled
    /\ fnResult' = parse_status_results(text.on, text.plate, text.vin_last5)
    /\ UNCHANGED << runVars, text, calls, report, cfgVars, extVars >>

ParseInit ==
    /\ IdleRun("parse")
    /\ text \in
         { [ on |-> [ page |-> pg, fieldset |-> f, paragraphs |-> ps,
                      span |-> sp ],
             plate |-> pl, vin_last5 |-> "12345" ] :
             pg \in BOOLEAN, f \in BOOLEAN,
             ps \in UNION { [ 1..n ->
                               { << >>, << " ", "\n" >>, Lit.expired,
                                 << " " >> \o Lit.was_mailed \o << "\n" >>,
                                 << "\t" >> \o Lit.action_is_required,
                                 Lit.in_progress \o << " ", " " >>,
                                 << "O", "K" >> } ] :
                             n \in 0..MaxParagraphs },
             sp \in { "absent", "date", "other" },
             pl \in { "8ABC123", "7XYZ999" } }
    /\ fnResult = NotCalled
    /\ calls = 0
    /\ report = "none"
    /\ config = NoConfig
    /\ call = NoCall
    /\ disk = [ kind |-> "absent" ]
    /\ kc = << >>
    /\ todo = [ left |-> 0, done |-> 0 ]
    /\ leaked = FALSE

\* _parse_status_results applied once to each results page under study.
ParseSpec == ParseInit /\ [][ParseStatusResults_Call]_vars

(***************************************************************************)
(* The provider contract (providers/base.py): a caller that holds an       *)
(* initialized provider and invokes its operations directly                *)
(***************************************************************************)
\* Largest number of operations one caller starts (model bound).
MaxCalls == 2

\* eligibility = await provider.validate_eligibility(plate, vin_last5)
\* fees = await provider.get_fee_breakdown()
\* The operations are public coroutines; nothing in them looks at what was
\* called before.
Caller_Invoke ==
    /\ cmd = "provider"
    /\ pc = "api_idle"
    /\ calls < MaxCalls
    /\ calls' = calls + 1
    /\ \E op \in { "validate_eligibility", "get_fee_breakdown" } :
         pc' = IF op = "validate_eligibility" THEN "el_goto" ELSE "fee_query"
    /\ UNCHANGED << envVars, exc, intrAt, opResult, bmVars, flowVars,
                    solveVars, fnVars, report, cfgVars,
                    extVars >>

\* The operation has returned or raised; the caller has the result or the
\* exception and goes on.
Caller_Resume ==
    /\ cmd = "provider"
    /\ pc \in { "rn_captcha", "rn_dry", "cleanup" }
    /\ pc' = "api_idle"
    /\ exc' = "none"
    /\ UNCHANGED << envVars, intrAt, opResult, bmVars, flowVars, solveVars,
                    libVars >>

\* provider = CADMVProvider(context); await provider.initialize()
ProviderInit ==
    /\ cmd = "provider"
    /\ headed = FALSE
    /\ dry_run = FALSE
    /\ api_key = FALSE
    /\ payment = FALSE
    /\ pc = "api_idle"
    /\ page = BlankPage
    /\ svPc = "idle"
    /\ closeCalls = 0
    /\ playwright = TRUE
    /\ browser = TRUE
    /\ context = TRUE
    /\ pageOpen = TRUE
    /\ events = << >>
    /\ submitCalls = 0
    /\ cardFills = 0
    /\ cardDataSent = FALSE
    /\ confirmed = "none"
    /\ receiptSaved = FALSE
    /\ opResult = NoResults
    /\ exc = "none"
    /\ intrAt = "none"
    /\ InitSolve /\ InitLib
    /\ todo = [ left |-> 0, done |-> 0 ]

ProviderNext ==
    \/ Caller_Invoke \/ Caller_Resume
    \/ El_Goto \/ El_FillPlate \/ El_FillVin \/ El_Click \/ El_Nav
    \/ El_Check \/ Fee_Query

\* validate_eligibility and get_fee_breakdown called in any order on one
\* provider.
ProviderSpec == ProviderInit /\ [][ProviderNext]_vars

(***************************************************************************)
(* CADMVProvider._parse_amount (providers/ca_dmv.py)                       *)
(***************************************************************************)
DigitSeq == << "0", "1", "2", "3", "4", "5", "6", "7", "8", "9" >>

\* \d
IsDigit(c) == \E i \in 1..Len(DigitSeq) : DigitSeq[i] = c

\* [\d,]
IsDigitOrComma(c) == IsDigit(c) \/ c = ","

\* The last index of the longest run of [\d,] (commas = TRUE) or of \d
\* that starts at i (i - 1 when the run is empty): a greedy + or *.
RunEnd(t, i, commas) ==
    LET P(c) == IF commas THEN IsDigitOrComma(c) ELSE IsDigit(c)
    IN  CHOOSE j \in (i - 1)..Len(t) :
            /\ \A k \in i..j : P(t[k])
            /\ j = Len(t) \/ ~P(t[j + 1])

\* \$?([\d,]+\.?\d*) can match starting at i: a "$" directly followed by
\* a digit or comma, or (the "$" given up) a digit or comma.
MatchStartsAt(t, i) ==
    \/ t[i] = "$" /\ i + 1 <= Len(t) /\ IsDigitOrComma(t[i + 1])
    \/ IsDigitOrComma(t[i])

\* re.search(r"\$?([\d,]+\.?\d*)", text): the leftmost match, each
\* quantifier greedy; group(1) of it.
Search(t) ==
    IF \E i \in 1..Len(t) : MatchStartsAt(t, i)
    THEN LET i  == CHOOSE j \in 1..Len(t) :
                       /\ MatchStartsAt(t, j)
                       /\ \A k \in 1..(j - 1) : ~MatchStartsAt(t, k)
             g  == IF t[i] = "$" THEN i + 1 ELSE i
             e1 == RunEnd(t, g, TRUE)
             e2 == IF e1 + 1 <= Len(t) /\ t[e1 + 1] = "." THEN e1 + 1 ELSE e1
             e3 == RunEnd(t, e2 + 1, FALSE)
         IN [ matched |-> TRUE, group |-> SubSeq(t, g, e3) ]
    ELSE [ matched |-> FALSE, group |-> << >> ]

RECURSIVE DigitsToInt(_)
DigitsToInt(ds) ==
    IF ds = << >> THEN 0
    ELSE 10 * DigitsToInt(SubSeq(ds, 1, Len(ds) - 1))
         + (CHOOSE i \in 1..Len(DigitSeq) : DigitSeq[i] = ds[Len(ds)]) - 1

\* Decimal(s) for s made of digits and dots: digits with at most one dot
\* among them and at least one digit give the number num / 10^scale; any
\* other string raises decimal.InvalidOperation.
Decimal(s) ==
    LET dots   == { i \in 1..Len(s) : s[i] = "." }
        digits == SelectSeq(s, IsDigit)
        dot    == IF dots = {} THEN Len(s) + 1 ELSE CHOOSE i \in dots : TRUE
    IN IF /\ Cardinality(dots) <= 1
          /\ Len(digits) >= 1
          /\ \A i \in 1..Len(s) : IsDigit(s[i]) \/ s[i] = "."
       THEN [ kind |-> "decimal", num |-> DigitsToInt(digits),
              scale |-> Len(s) - dot + (IF dots = {} THEN 1 ELSE 0) ]
       ELSE [ kind |-> "InvalidOperation" ]

\* match = re.search(...); if match: return Decimal(group.replace(",", ""))
\* return Decimal("0")
parse_amount(t) ==
    LET match == Search(t) IN
    IF match.matched
    THEN Decimal(SelectSeq(match.group, LAMBDA c : c # ","))
    ELSE Decimal(<< "0" >>)

\* Longest text fragment under study (model bound).
MaxAmountLen == 4

\* The texts under study, written in the currency sign, the separators,
\* two digits and a letter.
AmountTexts ==
    UNION { [ 1..n -> { "$", ",", ".", "0", "1", "x" } ] :
              n \in 0..MaxAmountLen }

\* amount = self._parse_amount(amount_text)
ParseAmount_Call ==
    /\ cmd = "amount"
    /\ fnResult = NotCalled
    /\ fnResult' = parse_amount(text)
    /\ UNCHANGED << runVars, text, calls, report, cfgVars, extVars >>

AmountInit ==
    /\ IdleRun("amount")
    /\ text \in AmountTexts
    /\ fnResult = NotCalled
    /\ calls = 0
    /\ report = "none"
    /\ config = NoConfig
    /\ call = NoCall
    /\ disk = [ kind |-> "absent" ]
    /\ kc = << >>
    /\ todo = [ left |-> 0, done |-> 0 ]
    /\ leaked = FALSE

\* _parse_amount applied once to each text fragment under study.
AmountSpec == AmountInit /\ [][ParseAmount_Call]_vars

(***************************************************************************)
(* UserConfig: the vehicle list and the methods that return a new config   *)
(***************************************************************************)
\* v.upper()
Upper(t) ==
    [ i \in 1..Len(t) |->
        IF \E q \in UpperLower : q[2] = t[i]
        THEN (CHOOSE q \in UpperLower : q[2] = t[i])[1]
        ELSE t[i] ]

\* VehicleInfo.normalize_plate: upper-case, drop every character that is
\* not A-Z or 0-9, then require 2 to 8 characters.
normalize_plate(v) ==
    LET cleaned == SelectSeq(Upper(v), LAMBDA c :
                       IsDigit(c) \/ \E q \in UpperLower : q[1] = c)
    IN  IF Len(cleaned) < 2 \/ Len(cleaned) > 8
        THEN [ kind |-> "ValueError" ]
        ELSE [ kind |-> "plate", plate |-> cleaned ]

\* normalized = plate.upper().replace("-", "").replace(" ", "")
normalized(plate) == SelectSeq(Upper(plate), LAMBDA c : c # "-" /\ c # " ")

\* The plate strings a caller passes.
RawPlates ==
    { << "A", "1" >>, << "a", "1" >>, << "A", "-", "1" >>,
      << "A", ".", "1" >>, << "B", "2" >>, << "C", " ", "3" >>,
      << "D" >> }

\* VehicleInfo(plate = raw, ...) for the raw plates the validator accepts.
VehicleInfos ==
    { [ plate |-> normalize_plate(r).plate, vin_last5 |-> "12345" ] :
        r \in { q \in RawPlates : normalize_plate(q).kind = "plate" } }

MaxVehicles == 3

\* Latest reading of datetime.now() in a study; the first config is
\* constructed at time 0.
MaxTime == 1

\* VehicleEntry(vehicle = v, nickname = n, is_default = d), constructed at
\* time now: added_at is filled by default_factory = datetime.now.
VehicleEntry(v, n, d, now) ==
    [ plate |-> v.plate, vin_last5 |-> v.vin_last5, nickname |-> n,
      is_default |-> d, added_at |-> now ]

\* The vehicle lists a caller hands to the constructor.
VehicleLists ==
    LET entries == { VehicleEntry(v, "None", d, 0) :
                       v \in VehicleInfos, d \in BOOLEAN }
    IN  UNION { [ 1..n -> entries ] : n \in 0..MaxVehicles }

\* payment: Optional[PaymentInfo] = None, the value of a config that has
\* no payment attached.
NoPayment == [ card_number |-> "None" ]

\* UserConfig(vehicles = vs, owner = o), constructed at time now:
\* validate_vehicles is the one check made on the list, created_at is
\* filled by its default_factory, model_post_init sets updated_at, and
\* version, state and payment take their defaults.
UserConfig(vs, o, now) ==
    IF vs = << >>
    THEN [ kind |-> "ValueError",
           msg |-> "At least one vehicle is required" ]
    ELSE [ kind |-> "config",
           config |-> [ version |-> 2, created_at |-> now,
                        updated_at |-> now, vehicles |-> vs, owner |-> o,
                        payment |-> NoPayment, state |-> "CA" ] ]

\* PaymentInfo values a caller attaches or stores.
Payments ==
    { [ card_number |-> "4242424242424242", expiry_month |-> 12,
        expiry_year |-> 2027, cvv |-> "123", billing_zip |-> "90001" ],
      [ card_number |-> "5555555555554444", expiry_month |-> 1,
        expiry_year |-> 2030, cvv |-> "4567", billing_zip |-> "10001" ] }

\* UserConfig.default_vehicle: the first entry marked default, else the
\* first entry, else None.
default_vehicle(self) ==
    LET marked == { i \in 1..Len(self.vehicles) :
                        self.vehicles[i].is_default }
    IN  IF marked # {}
        THEN [ kind |-> "entry",
               entry |-> self.vehicles[CHOOSE i \in marked :
                                          \A j \in marked : i <= j] ]
        ELSE IF Len(self.vehicles) > 0
             THEN [ kind |-> "entry", entry |-> self.vehicles[1] ]
             ELSE [ kind |-> "None" ]

\* UserConfig.add_vehicle.  The record gives the receiver as the call
\* leaves it (self) and the config returned.
add_vehicle(self, vehicle, nickname, is_default, now) ==
    LET first == is_default \/ Len(self.vehicles) = 0
        entry == [ VehicleEntry(vehicle, nickname, is_default, now)
                       EXCEPT !.is_default = first ]
        cleared == [ i \in 1..Len(self.vehicles) |->
                       [ self.vehicles[i] EXCEPT !.is_default = FALSE ] ]
        new_vehicles ==
            Append(IF first THEN cleared ELSE self.vehicles, entry)
    IN  [ self |-> self, kind |-> "config",
          config |-> [ self EXCEPT !.vehicles = new_vehicles ] ]

\* remove_vehicle without the check for an empty remaining list.
remove_vehicle_NoLastCheck(self, plate) ==
    LET new_vehicles == SelectSeq(self.vehicles,
                                  LAMBDA v : v.plate # normalized(plate))
    IN  IF Len(new_vehicles) = Len(self.vehicles)
        THEN [ self |-> self, kind |-> "ValueError", msg |-> "not found" ]
        ELSE IF new_vehicles # << >>
                /\ \A i \in 1..Len(new_vehicles) :
                       ~new_vehicles[i].is_default
        THEN [ self |-> self, kind |-> "config",
               config |-> [ self EXCEPT !.vehicles =
                   [ new_vehicles EXCEPT ![1].is_default = TRUE ] ] ]
        ELSE [ self |-> self, kind |-> "config",
               config |-> [ self EXCEPT !.vehicles = new_vehicles ] ]

\* UserConfig.remove_vehicle
remove_vehicle(self, plate) ==
    LET new_vehicles == SelectSeq(self.vehicles,
                                  LAMBDA v : v.plate # normalized(plate))
    IN  IF Len(new_vehicles) = Len(self.vehicles)
        THEN [ self |-> self, kind |-> "ValueError", msg |-> "not found" ]
        ELSE IF Len(new_vehicles) = 0
        THEN [ self |-> self, kind |-> "ValueError",
               msg |-> "Cannot remove the last vehicle" ]
        ELSE IF \A i \in 1..Len(new_vehicles) : ~new_vehicles[i].is_default
        THEN [ self |-> self, kind |-> "config",
               config |-> [ self EXCEPT !.vehicles =
                   [ new_vehicles EXCEPT ![1].is_default = TRUE ] ] ]
        ELSE [ self |-> self, kind |-> "config",
               config |-> [ self EXCEPT !.vehicles = new_vehicles ] ]

\* UserConfig.set_default
set_default(self, plate) ==
    LET found == \E i \in 1..Len(self.vehicles) :
                     self.vehicles[i].plate = normalized(plate)
        new_vehicles ==
            [ i \in 1..Len(self.vehicles) |->
                [ self.vehicles[i] EXCEPT !.is_default =
                      (self.vehicles[i].plate = normalized(plate)) ] ]
    IN  IF ~found
        THEN [ self |-> self, kind |-> "ValueError", msg |-> "not found" ]
        ELSE [ self |-> self, kind |-> "config",
               config |-> [ self EXCEPT !.vehicles = new_vehicles ] ]

\* UserConfig.get_vehicle: the first entry with the looked-up plate.
get_vehicle(self, plate) ==
    LET hits == { i \in 1..Len(self.vehicles) :
                      self.vehicles[i].plate = normalized(plate) }
    IN  IF hits = {}
        THEN [ self |-> self, kind |-> "None" ]
        ELSE [ self |-> self, kind |-> "entry",
               entry |-> self.vehicles[CHOOSE i \in hits :
                                          \A j \in hits : i <= j] ]

\* with_payment without a copy: the payment is set on the receiver.
with_payment_InPlace(self, pay) ==
    [ self |-> [ self EXCEPT !.payment = pay ], kind |-> "config",
      config |-> [ self EXCEPT !.payment = pay ] ]

\* UserConfig.with_payment
with_payment(self, pay) ==
    [ self |-> self, kind |-> "config",
      config |-> [ self EXCEPT !.payment = pay ] ]

\* What the caller holds after the call: config = config.method(...) when
\* the method returned, the config it had when the method raised.
Held(r) == IF r.kind = "config" THEN r.config ELSE r.self

\* config = config.add_vehicle(vehicle, is_default = d)
Call_add_vehicle ==
    /\ cmd = "config"
    /\ Len(config.vehicles) < MaxVehicles
    /\ \E v \in VehicleInfos, d \in BOOLEAN,
          now \in (config.updated_at + 1)..MaxTime :
         LET r == add_vehicle(config, v, "Tesla", d, now)
         IN  /\ call' = [ op |-> "add_vehicle", plate |-> v.plate,
                          at |-> now, before |-> config, result |-> r ]
             /\ config' = Held(r)
    /\ UNCHANGED << runVars, fnVars, calls, report, extVars >>

\* config = config.remove_vehicle(plate)
Call_remove_vehicle ==
    /\ cmd = "config"
    /\ \E p \in RawPlates, now \in (config.updated_at + 1)..MaxTime :
         LET r == remove_vehicle(config, p)
         IN  /\ call' = [ op |-> "remove_vehicle", plate |-> p,
                          at |-> now, before |-> config, result |-> r ]
             /\ config' = Held(r)
    /\ UNCHANGED << runVars, fnVars, calls, report, extVars >>

\* config = config.set_default(plate)
Call_set_default ==
    /\ cmd = "config"
    /\ \E p \in RawPlates, now \in (config.updated_at + 1)..MaxTime :
         LET r == set_default(config, p)
         IN  /\ call' = [ op |-> "set_default", plate |-> p,
                          at |-> now, before |-> config, result |-> r ]
             /\ config' = Held(r)
    /\ UNCHANGED << runVars, fnVars, calls, report, extVars >>

\* entry = config.get_vehicle(plate)
Call_get_vehicle ==
    /\ cmd = "config"
    /\ \E p \in RawPlates, now \in (config.updated_at + 1)..MaxTime :
         /\ call' = [ op |-> "get_vehicle", plate |-> p, at |-> now,
                      before |-> config,
                      result |-> get_vehicle(config, p) ]
         /\ config' = config
    /\ UNCHANGED << runVars, fnVars, calls, report, extVars >>

\* config = config.with_payment(payment)
Call_with_payment ==
    /\ cmd = "config"
    /\ \E now \in (config.updated_at + 1)..MaxTime :
         LET r == with_payment(config, CHOOSE pay \in Payments : pay.cvv = "123")
         IN  /\ call' = [ op |-> "with_payment", plate |-> << >>,
                          at |-> now, before |-> config, result |-> r ]
             /\ config' = Held(r)
    /\ UNCHANGED << runVars, fnVars, calls, report, extVars >>

ConfigInit ==
    /\ IdleRun("config")
    /\ text = << >>
    /\ fnResult = NotCalled
    /\ calls = 0
    /\ report = "none"
    /\ \E vs \in VehicleLists, o \in { "None", "Jane Doe" } :
         /\ UserConfig(vs, o, 0).kind = "config"
         /\ config = UserConfig(vs, o, 0).config
    /\ call = NoCall
    /\ disk = [ kind |-> "absent" ]
    /\ kc = << >>
    /\ todo = [ left |-> 0, done |-> 0 ]
    /\ leaked = FALSE

ConfigNext ==
    \/ Call_add_vehicle
    \/ Call_remove_vehicle
    \/ Call_set_default
    \/ Call_get_vehicle
    \/ Call_with_payment

\* A config the constructor accepts, taken through any sequence of
\* add_vehicle, remove_vehicle and set_default calls.
ConfigSpec == ConfigInit /\ [][ConfigNext]_vars

(***************************************************************************)
(* ConfigManager.save / ConfigManager.load (core/config.py)                *)
(***************************************************************************)
\* model_dump of a model whose payment field is not excluded.
model_dump_WithPayment(c) ==
    LET omit(v) == IF v = "None" THEN "missing" ELSE v
        entry(e) == [ vehicle |-> [ plate |-> e.plate,
                                    vin_last5 |-> e.vin_last5 ],
                      nickname |-> omit(e.nickname),
                      is_default |-> e.is_default,
                      added_at |-> [ iso |-> e.added_at ] ]
    IN  [ version |-> c.version,
          created_at |-> [ iso |-> c.created_at ],
          updated_at |-> [ iso |-> c.updated_at ],
          vehicles |-> [ i \in 1..Len(c.vehicles) |-> entry(c.vehicles[i]) ],
          owner |-> omit(c.owner),
          payment |-> c.payment,
          state |-> c.state ]

\* config.model_dump(mode="json", exclude_none=True) written as TOML: a
\* datetime becomes its ISO string, a field that is None is left out
\* ("missing"), and payment (Field(exclude=True)) is never part of it.
model_dump(c) ==
    LET omit(v) == IF v = "None" THEN "missing" ELSE v
        entry(e) == [ vehicle |-> [ plate |-> e.plate,
                                    vin_last5 |-> e.vin_last5 ],
                      nickname |-> omit(e.nickname),
                      is_default |-> e.is_default,
                      added_at |-> [ iso |-> e.added_at ] ]
    IN  [ version |-> c.version,
          created_at |-> [ iso |-> c.created_at ],
          updated_at |-> [ iso |-> c.updated_at ],
          vehicles |-> [ i \in 1..Len(c.vehicles) |-> entry(c.vehicles[i]) ],
          owner |-> omit(c.owner),
          state |-> c.state ]

\* ConfigManager.save: the file holds the dump, readable with the
\* passphrase it was encrypted under.
save(c, passphrase) ==
    [ kind |-> "file", key |-> passphrase, plain |-> model_dump(c) ]

\* ConfigManager.load at time now: decrypt, _migrate, then
\* UserConfig.model_validate, which fills the defaults of missing fields
\* and runs model_post_init.
load(file, passphrase, now) ==
    IF file.kind = "absent" THEN [ kind |-> "ConfigNotFoundError" ]
    ELSE IF file.key # passphrase THEN [ kind |-> "ConfigDecryptionError" ]
    ELSE
      LET d == file.plain
          given(v) == IF v = "missing" THEN "None" ELSE v
          entry(e) == [ plate |-> e.vehicle.plate,
                        vin_last5 |-> e.vehicle.vin_last5,
                        nickname |-> given(e.nickname),
                        is_default |-> e.is_default,
                        added_at |-> e.added_at.iso ]
          version == IF d.version + 1 <= 2 THEN 2 ELSE d.version
      IN  IF d.vehicles = << >>
          THEN [ kind |-> "ConfigValidationError" ]
          ELSE [ kind |-> "config",
                 config |->
                   [ version |-> version,
                     created_at |-> d.created_at.iso,
                     updated_at |-> now,
                     vehicles |-> [ i \in 1..Len(d.vehicles) |->
                                      entry(d.vehicles[i]) ],
                     owner |-> given(d.owner),
                     payment |-> NoPayment,
                     state |-> d.state ] ]

\* manager.save(config, passphrase)
Mgr_Save ==
    /\ cmd = "config"
    /\ \E p \in { "pass1", "pass2" } :
         /\ disk' = save(config, p)
         /\ call' = [ op |-> "save", key |-> p, before |-> config ]
    /\ UNCHANGED << runVars, fnVars, calls, report, config, kc, todo,
                    leaked >>

\* config = manager.load(passphrase)
Mgr_Load ==
    /\ cmd = "config"
    /\ \E p \in { "pass1", "pass2" },
          now \in (config.updated_at + 1)..MaxTime :
         LET r == load(disk, p, now)
         IN  /\ call' = [ op |-> "load", key |-> p, at |-> now,
                          before |-> config, file |-> disk, result |-> r ]
             /\ config' = IF r.kind = "config" THEN r.config ELSE config
    /\ UNCHANGED << runVars, fnVars, calls, report, extVars >>

\* A config the constructor accepts, given a payment, saved and loaded in
\* any order under either passphrase.
StoreSpec ==
    ConfigInit /\ [][Call_with_payment \/ Mgr_Save \/ Mgr_Load]_vars

(***************************************************************************)
(* PaymentKeychain (core/keychain.py) on the OS keychain.  Every           *)
(* keyring.set_password, get_password and delete_password is one step;     *)
(* tool invocations run side by side and any of them may be killed         *)
(* between two steps.                                                      *)
(***************************************************************************)
\* The keys in the order store writes, retrieve reads and delete removes.
Keys == << "card_number", "card_expiry", "card_cvv", "billing_zip" >>

\* Tool invocations that write to the keychain in one study (model bound).
MaxInvocations == 2

\* The value store writes under Keys[n]; the expiry is written as
\* f"{payment.expiry_month:02d}/{payment.expiry_year}".
Secret(pay, n) ==
    LET dig(d) == << DigitSeq[(d % 10) + 1] >>
    IN  IF n = 1 THEN pay.card_number
        ELSE IF n = 2
        THEN dig(pay.expiry_month \div 10) \o dig(pay.expiry_month)
               \o << "/" >>
               \o dig(pay.expiry_year \div 1000)
               \o dig(pay.expiry_year \div 100)
               \o dig(pay.expiry_year \div 10) \o dig(pay.expiry_year)
        ELSE IF n = 3 THEN pay.cvv
        ELSE pay.billing_zip

\* PaymentKeychain.retrieve from the four values it read, in key order
\* ("None": get_password found nothing): None when the card number is missing, when another value
\* is missing, or when the expiry does not split into two integers.  The
\* values are those of stored payments, which PaymentInfo accepts field
\* by field.
retrieve(got) ==
    IF got[1] = "None" THEN [ kind |-> "None" ]
    ELSE IF got[2] = "None" \/ got[3] = "None" \/ got[4] = "None"
    THEN [ kind |-> "None" ]
    ELSE
      LET expiry == got[2]
          cuts   == { i \in 1..Len(expiry) : expiry[i] = "/" }
          first  == CHOOSE i \in cuts : \A j \in cuts : i <= j
          later  == { i \in cuts : i > first }
          stop   == IF later = {} THEN Len(expiry) + 1
                    ELSE CHOOSE i \in later : \A j \in later : i <= j
          part0  == SubSeq(expiry, 1, first - 1)
          part1  == SubSeq(expiry, first + 1, stop - 1)
          int_ok(p) == p # << >> /\ \A i \in 1..Len(p) : IsDigit(p[i])
      IN  IF cuts = {} \/ ~int_ok(part0) \/ ~int_ok(part1)
          THEN [ kind |-> "None" ]
          ELSE [ kind |-> "payment",
                 payment |-> [ card_number |-> got[1],
                               expiry_month |-> DigitsToInt(part0),
                               expiry_year |-> DigitsToInt(part1),
                               cvv |-> got[3],
                               billing_zip |-> got[4] ] ]

\* PaymentKeychain.exists: the card number key holds a value.
exists(ring) == ring[1] # "None"

\* An invocation starts PaymentKeychain.store(pay) or
\* PaymentKeychain.delete().
KC_Begin(i) ==
    /\ cmd = "keychain"
    /\ kc.inv[i].op = "none"
    /\ \E o \in { [ op |-> "store", pay |-> p, step |-> 0 ] :
                    p \in Payments }
                \cup { [ op |-> "delete", pay |-> "None", step |-> 0 ] } :
         kc' = [ kc EXCEPT !.inv[i] = o,
                           !.stored = IF o.op = "store" THEN @ \cup { o.pay }
                                                        ELSE @ ]
    /\ UNCHANGED << runVars, fnVars, calls, report, cfgVars, disk, todo,
                    leaked >>

\* store: the next keyring.set_password.
KC_Set(i) ==
    /\ cmd = "keychain"
    /\ kc.inv[i].op = "store"
    /\ kc.inv[i].step < Len(Keys)
    /\ LET n == kc.inv[i].step + 1
       IN  kc' = [ kc EXCEPT !.ring[n] = Secret(kc.inv[i].pay, n),
                             !.inv[i].step = n ]
    /\ UNCHANGED << runVars, fnVars, calls, report, cfgVars, disk, todo,
                    leaked >>

\* delete: the next keyring.delete_password (PasswordDeleteError ignored).
KC_Delete(i) ==
    /\ cmd = "keychain"
    /\ kc.inv[i].op = "delete"
    /\ kc.inv[i].step < Len(Keys)
    /\ LET n == kc.inv[i].step + 1
       IN  kc' = [ kc EXCEPT !.ring[n] = "None", !.inv[i].step = n ]
    /\ UNCHANGED << runVars, fnVars, calls, report, cfgVars, disk, todo,
                    leaked >>

\* The invocation is killed between two keyring calls.
KC_Interrupt(i) ==
    /\ cmd = "keychain"
    /\ kc.inv[i].op \in { "store", "delete" }
    /\ kc.inv[i].step < Len(Keys)
    /\ kc' = [ kc EXCEPT !.inv[i].op = "killed" ]
    /\ UNCHANGED << runVars, fnVars, calls, report, cfgVars, disk, todo,
                    leaked >>

\* Another invocation calls exists() and retrieve() while no write or
\* delete happens: retrieve reads the four keys one after the other.
KC_Check ==
    /\ cmd = "keychain"
    /\ kc' = [ kc EXCEPT !.seen = [ exists |-> exists(kc.ring),
                                    retrieve |-> retrieve(kc.ring) ] ]
    /\ kc'.seen # kc.seen
    /\ UNCHANGED << runVars, fnVars, calls, report, cfgVars, disk, todo,
                    leaked >>

KeychainInit ==
    /\ IdleRun("keychain")
    /\ text = << >>
    /\ fnResult = NotCalled
    /\ calls = 0
    /\ report = "none"
    /\ config = NoConfig
    /\ call = NoCall
    /\ disk = [ kind |-> "absent" ]
    /\ kc = [ ring   |-> [ n \in 1..Len(Keys) |-> "None" ],
              inv    |-> [ i \in 1..MaxInvocations |->
                             [ op |-> "none", pay |-> "None", step |-> 0 ] ],
              stored |-> {},
              seen   |-> [ exists |-> FALSE,
                           retrieve |-> [ kind |-> "None" ] ] ]
    /\ todo = [ left |-> 0, done |-> 0 ]
    /\ leaked = FALSE

\* Up to MaxInvocations invocations that store or delete, their keychain
\* calls in any interleaving, and a caller of exists() and retrieve().
KeychainSpec ==
    KeychainInit
    /\ [][ \/ \E i \in 1..MaxInvocations :
               KC_Begin(i) \/ KC_Set(i) \/ KC_Delete(i) \/ KC_Interrupt(i)
          \/ KC_Check ]_vars

(***************************************************************************)
(* Properties                                                              *)
(***************************************************************************)
Range(seq) == { seq[i] : i \in 1..Len(seq) }

IsPrefix(a, b) == Len(a) <= Len(b) /\ SubSeq(b, 1, Len(a)) = a

StatusResult == opResult["get_registration_status"]

\* C1: in every renewal run submit_renewal is invoked at most once, and only
\* in a run that is not a dry run, after validate_eligibility and
\* get_fee_breakdown have both returned and the user has answered yes; in a
\* dry run, and after a declined confirmation, no card field is ever filled.
C1_SubmitOnlyAfterConfirm ==
    /\ submitCalls <= 1
    /\ submitCalls = 1 =>
          /\ ~dry_run
          /\ opResult["validate_eligibility"] = "returned"
          /\ opResult["get_fee_breakdown"] = "returned"
          /\ confirmed = "yes"
    /\ (dry_run \/ confirmed = "no") => cardFills = 0 /\ ~cardDataSent

\* A renewal confirmed by the user, all three card fields filled.
C1_Witness == submitCalls = 1 /\ cardFills = 3 /\ confirmed = "yes"

\* Teardown has happened as far as there was anything to tear down.
TornDown == closeCalls >= 1 \/ ~(playwright \/ browser \/ context)

\* C2: when a user interrupt that arrived at one of the listed suspension
\* points has reached the caller, the session's close has run (read
\* generously: or nothing had been started yet), and if the interrupt
\* arrived before the submit-payment click, no card data has been sent.
C2_InterruptTearsDown ==
    (pc = "exited" /\ intrAt \in ListedSuspensionPcs) =>
        /\ TornDown
        /\ intrAt \in BeforeSubmitClickPcs => ~cardDataSent

\* C3: whenever the scope of a BrowserManager is left, on any path, every
\* resource that was started (context, browser, playwright driver) has been
\* released.
C3_AllReleasedOnExit ==
    pc = "exited" => ~playwright /\ ~browser /\ ~context

\* Positions of solve() after the decision about strategy 1.
PastStrategy1 == { "sv_sitekey", "sv_submit", "sv_poll", "sv_inject",
                   "sv_strategy2", "sv_manual_poll" }

\* solve() got past detection: a CAPTCHA was present.
CaptchaWasPresent ==
    \/ svPc \in PastStrategy1
    \/ svPc = "sv_done" /\ (solveOutcome # "success" \/ manualEntered
                             \/ apiResult # "none")

\* C4: with a CAPTCHA present, the automated solve is tried first exactly
\* when a credential is configured; the manual wait is entered only in a
\* headed session and only when the automated solve was unavailable (no
\* credential) or has returned failure.
C4_StrategyChain ==
    /\ apiResult # "none" => api_key
    /\ (CaptchaWasPresent /\ api_key) => apiResult # "none"
    /\ manualEntered => headed
    /\ (manualEntered /\ api_key) => apiResult = "failed"
    /\ svPc = "sv_manual_poll" => manualEntered

\* The manual wait entered after a configured automated solve failed.
C4_Witness ==
    svPc = "sv_manual_poll" /\ api_key /\ apiResult = "failed" /\ headed

\* C5: solve signals CAPTCHA-unresolved only when no strategy was applicable
\* (headless and no credential), and signals solve-failed whenever a
\* strategy was attempted and none succeeded.
C5_ErrorKinds ==
    /\ solveOutcome = "unresolved" => (~headed /\ ~api_key)
    /\ (svPc = "sv_done" /\ solveOutcome # "success"
          /\ (apiResult # "none" \/ manualEntered))
       => solveOutcome = "failed"

IsProtocolStep(e) ==
    e \in { "nav", "fill_plate", "fill_vin", "submit", "parse_results" }

\* PlateEntry, VinEntry, Results: load, fill plate, submit, settle,
\* fill VIN, submit, settle, parse.
StatusOrder ==
    << "nav", "fill_plate", "submit", "nav",
       "fill_vin", "submit", "nav", "parse_results" >>

\* C7: in get_registration_status the steps happen in the order PlateEntry,
\* VinEntry, Results, none repeated: the VIN is filled only after the
\* navigation of the plate submission has settled, the results are parsed
\* only after the navigation of the VIN submission has settled, and a call
\* that returns has done each step exactly once.
C7_StatusStepOrder ==
    cmd = "status" =>
        /\ IsPrefix(SelectSeq(events, IsProtocolStep), StatusOrder)
        /\ StatusResult = "returned" =>
               SelectSeq(events, IsProtocolStep) = StatusOrder

\* A status check that returned a RegistrationStatus.
C7_Witness == cmd = "status" /\ StatusResult = "returned"

\* C8: in every provider flow each settled navigation is followed
\* immediately by a CAPTCHA check, before the next fill, submit or parse.
C8_CaptchaAfterEachNav ==
    \A i \in 1..Len(events) :
        (events[i] = "nav" /\ i < Len(events)) => events[i + 1] = "captcha"

\* C9: get_registration_status fails with CAPTCHA-unresolved only when the
\* session is headless and no credential is configured (otherwise a solve
\* strategy is attempted first), and then no plate or VIN has been filled.
C9_StatusCaptchaPerChain ==
    (cmd = "status" /\ StatusResult = "CaptchaDetected") =>
        /\ ~headed /\ ~api_key
        /\ "fill_plate" \notin Range(events)
        /\ "fill_vin" \notin Range(events)

\* The check of the VIN/HIN-not-found marker has been made on the page
\* that came back from the VIN submission.
VinPageChecked == cmd = "status" /\ "check_vin" \in Range(events)

\* C10 as stated: whenever the page after the VIN submission contains the
\* marker element, the call fails with vehicle-not-found, before any
\* results parsing.
C10_AnyMarkerFails ==
    (VinPageChecked /\ page.vinMarker # "absent") =>
        /\ StatusResult = "VehicleNotFound"
        /\ "parse_results" \notin Range(events)

\* C10: whenever the page after the VIN submission contains the marker
\* element with non-blank text, the call fails with vehicle-not-found,
\* returns no RegistrationStatus, and no results parsing has happened.
C10_MarkerWithTextFails ==
    (VinPageChecked /\ page.vinMarker = "text") =>
        /\ StatusResult = "VehicleNotFound"
        /\ "parse_results" \notin Range(events)

\* The check found the marker with text.
C10_Witness ==
    VinPageChecked /\ page.vinMarker = "text"
                   /\ StatusResult = "VehicleNotFound"

\* ---------------------------------------------------------------------
\* C11: for every text, _determine_status_from_text returns what the
\* ordered, case-insensitive, first-match-wins rule list gives: (1) 'has
\* been mailed' or 'was mailed' -> CURRENT; (2) 'items due' or 'action is
\* required' -> PENDING when 'no further action' is also there, else HOLD;
\* (3) 'in progress', 'not yet been mailed' or 'not yet received' ->
\* PENDING; (4) 'expired' -> EXPIRED; (5) otherwise PENDING.
Occurs(t, p) ==
    \E i \in 1..Len(t) :
        /\ i + Len(p) - 1 <= Len(t)
        /\ \A k \in 1..Len(p) : Lower(t)[i + k - 1] = p[k]

StatusRules ==
    << [ any |-> { Lit.has_been_mailed, Lit.was_mailed },
         also |-> {}, with |-> "CURRENT", without |-> "CURRENT" ],
       [ any |-> { Lit.items_due, Lit.action_is_required },
         also |-> { Lit.no_further_action },
         with |-> "PENDING", without |-> "HOLD" ],
       [ any |-> { Lit.in_progress, Lit.not_yet_been_mailed,
                   Lit.not_yet_received },
         also |-> {}, with |-> "PENDING", without |-> "PENDING" ],
       [ any |-> { Lit.expired },
         also |-> {}, with |-> "EXPIRED", without |-> "EXPIRED" ] >>

RuleMatches(t, r) == \E p \in r.any : Occurs(t, p)

FirstMatchWins(t) ==
    IF \E i \in 1..Len(StatusRules) : RuleMatches(t, StatusRules[i])
    THEN LET i == CHOOSE j \in 1..Len(StatusRules) :
                    /\ RuleMatches(t, StatusRules[j])
                    /\ \A k \in 1..(j - 1) : ~RuleMatches(t, StatusRules[k])
             r == StatusRules[i]
         IN IF \E p \in r.also : Occurs(t, p) THEN r.with ELSE r.without
    ELSE "PENDING"

C11_StatusFromText ==
    cmd = "classify" /\ fnResult # NotCalled =>
        fnResult.status = FirstMatchWins(text)

\* a text in which a later rule's literal stands next to an earlier rule's
C11_Witness ==
    /\ cmd = "classify"
    /\ fnResult # NotCalled
    /\ fnResult.status = "PENDING"
    /\ Occurs(text, Lit.expired)
    /\ Occurs(text, Lit.not_yet_received)

\* ---------------------------------------------------------------------
\* C12: whenever get_fee_breakdown has just returned a FeeBreakdown,
\* validate_eligibility has returned successfully before it in the same
\* session; called before the validation, or after the validation failed,
\* it returns none.
C12_FeeNeedsEligibility ==
    pc = "rn_dry" => opResult["validate_eligibility"] = "returned"

\* ---------------------------------------------------------------------
\* C13: validate_eligibility returns an EligibilityResult if and only if
\* no error-marker element (generic error message, smog error, insurance
\* error) is on the page after the plate+VIN submission; with any such
\* element present it ends in an error and returns no result.
NoErrorMarker(p) == p.errorMsg = "absent" /\ ~p.smogErr /\ ~p.insErr

\* validate_eligibility has just looked at the submitted page.
JustValidated ==
    /\ events # << >>
    /\ events[Len(events)] = "parse_errors"
    /\ submitCalls = 0
    /\ opResult["validate_eligibility"] # "none"

C13_EligibleIffNoMarker ==
    JustValidated =>
        (opResult["validate_eligibility"] = "returned" <=> NoErrorMarker(page))

\* ---------------------------------------------------------------------
\* C14: after the payment submission, with an error element on the page,
\* submit_renewal fails, returns no RenewalResult and writes no receipt:
\* error text containing 'declined' gives PaymentDeclinedError, any other
\* error text gives a PaymentError.
PaymentErrorShown ==
    /\ submitCalls = 1
    /\ events # << >>
    /\ events[Len(events)] = "parse_errors"
    /\ page.payErr # "absent"

C14_PaymentErrorKinds ==
    PaymentErrorShown =>
        /\ opResult["submit_renewal"] # "returned"
        /\ ~receiptSaved
        /\ page.payErr = "declined" =>
               opResult["submit_renewal"] = "PaymentDeclined"
        /\ page.payErr = "other" =>
               IsA(opResult["submit_renewal"], "PaymentError")

\* ---------------------------------------------------------------------
\* C15: a browser launch failure, navigation failure, operation timeout
\* or selector-not-found during a command run reaches the command as a
\* BrowserError and is reported with the browser remediation hint, not as
\* an unexpected error.
C15_BrowserErrorReported ==
    pc = "reported" /\ exc = "PlaywrightError" =>
        /\ IsA(exc, "BrowserError")
        /\ report = "browser_hint"

\* ---------------------------------------------------------------------
\* C16: for every text fragment _parse_amount returns the exact decimal
\* value of the first dollar-amount pattern in it (digits, groups of
\* ",digits", an optional "." and digits) with the thousands separators
\* stripped, and returns zero without raising when the text holds no
\* amount, text with commas but no digits included.
HasAmount(t) == \E i \in 1..Len(t) : IsDigit(t[i])

\* The end of "digits[,digits]*" for a run of digits ending at e.
RECURSIVE GroupsEnd(_, _)
GroupsEnd(t, e) ==
    IF e + 2 <= Len(t) /\ t[e + 1] = "," /\ IsDigit(t[e + 2])
    THEN GroupsEnd(t, RunEnd(t, e + 2, FALSE))
    ELSE e

RECURSIVE Pow10(_)
Pow10(n) == IF n = 0 THEN 1 ELSE 10 * Pow10(n - 1)

\* The first amount of a text that has one: whole part and fraction.
FirstAmount(t) ==
    LET f  == CHOOSE i \in 1..Len(t) :
                  IsDigit(t[i]) /\ \A k \in 1..(i - 1) : ~IsDigit(t[k])
        e  == GroupsEnd(t, RunEnd(t, f, FALSE))
        fe == IF e + 1 <= Len(t) /\ t[e + 1] = "."
              THEN RunEnd(t, e + 2, FALSE) ELSE e
        whole == SelectSeq(SubSeq(t, f, e), IsDigit)
        frac  == SubSeq(t, e + 2, fe)
    IN [ num |-> DigitsToInt(whole \o frac), scale |-> Len(frac) ]

SameValue(r, a) ==
    /\ r.kind = "decimal"
    /\ r.num * Pow10(a.scale) = a.num * Pow10(r.scale)

C16_ParseAmount ==
    cmd = "amount" /\ fnResult # NotCalled =>
        IF HasAmount(text)
        THEN SameValue(fnResult, FirstAmount(text))
        ELSE fnResult = [ kind |-> "decimal", num |-> 0, scale |-> 0 ]

\* ---------------------------------------------------------------------
\* C17: every UserConfig that can exist, whether constructed directly or
\* produced by any sequence of add_vehicle, remove_vehicle and
\* set_default, has exactly one entry with is_default = true whenever its
\* vehicle list is non-empty.
Defaults(vs) == { i \in 1..Len(vs) : vs[i].is_default }

C17_ExactlyOneDefault ==
    (cmd = "config" /\ config.vehicles # << >>) =>
        Cardinality(Defaults(config.vehicles)) = 1

\* ---------------------------------------------------------------------
\* C18: remove_vehicle given the plate of the current default entry of a
\* config with at least two vehicles returns a config whose default is the
\* first remaining entry in list order; given the plate of a non-default
\* entry it returns a config with the same default entry and the
\* remaining entries in their old order.
Plates(vs) == [ i \in 1..Len(vs) |-> vs[i].plate ]

Without(vs, plate) == SelectSeq(Plates(vs), LAMBDA q : q # plate)

Removed ==
    /\ call.op = "remove_vehicle"
    /\ Len(call.before.vehicles) >= 2
    /\ \E i \in 1..Len(call.before.vehicles) :
           call.before.vehicles[i].plate = normalized(call.plate)

C18_RemovePromotesFirst ==
    Removed =>
        LET old  == call.before
            key  == normalized(call.plate)
            rest == Without(old.vehicles, key)
            new  == call.result.config
        IN  /\ call.result.kind = "config"
            /\ Plates(new.vehicles) = rest
            /\ default_vehicle(new).kind = "entry"
            /\ IF default_vehicle(old).entry.plate = key
               THEN default_vehicle(new).entry.plate = rest[1]
               ELSE default_vehicle(new).entry.plate =
                        default_vehicle(old).entry.plate

\* ---------------------------------------------------------------------
\* C19: remove_vehicle on a config with exactly one vehicle raises (with
\* 'Cannot remove the last vehicle' when the plate names that vehicle) and
\* returns no config, so no config has an empty vehicle list;
\* remove_vehicle and set_default with a plate that is not in the list
\* raise as well; and whenever one of them raises, the config it was
\* called on is as it was before the call.
NotInList(vs, plate) ==
    \A i \in 1..Len(vs) :
        normalize_plate(plate).kind = "plate" =>
            vs[i].plate # normalize_plate(plate).plate

Looked == call.op \in { "remove_vehicle", "set_default" }

C19_RemoveLastRejected ==
    cmd = "config" =>
        /\ config.vehicles # << >>
        /\ (call.op = "remove_vehicle" /\ Len(call.before.vehicles) = 1) =>
               /\ call.result.kind = "ValueError"
               /\ call.before.vehicles[1].plate = normalized(call.plate) =>
                      call.result.msg = "Cannot remove the last vehicle"
        /\ (Looked /\ NotInList(call.before.vehicles, call.plate)) =>
               call.result.kind = "ValueError"
        /\ (Looked /\ call.result.kind = "ValueError") =>
               /\ call.result.self = call.before
               /\ config = call.before

\* remove_vehicle was refused on a one-vehicle config, and set_default or
\* remove_vehicle can be refused for an unknown plate.
C19_Witness ==
    /\ call.op = "remove_vehicle"
    /\ Len(call.before.vehicles) = 1
    /\ call.before.vehicles[1].plate = normalized(call.plate)
    /\ call.result.kind = "ValueError"
    /\ call.result.msg = "Cannot remove the last vehicle"
    /\ config = call.before

\* ---------------------------------------------------------------------
\* C20: a call of add_vehicle, remove_vehicle or set_default on a config
\* whose entries have distinct plates leaves the caller with a config
\* whose entries have distinct plates.
DistinctPlates(vs) ==
    \A i, j \in 1..Len(vs) : vs[i].plate = vs[j].plate => i = j

C20_PlatesStayDistinct ==
    (call.op # "none" /\ DistinctPlates(call.before.vehicles)) =>
        DistinctPlates(config.vehicles)

\* ---------------------------------------------------------------------
\* C21: add_vehicle, remove_vehicle, set_default and with_payment leave
\* the config they were called on as it was before the call in every
\* field, whether they return a config or raise, and what they return is
\* a config.
C21_MethodsArePure ==
    ( /\ cmd = "config"
      /\ call.op \in { "add_vehicle", "remove_vehicle", "set_default",
                       "with_payment" } ) =>
        /\ call.result.self = call.before
        /\ call.result.kind \in { "config", "ValueError" }
        /\ call.op \in { "add_vehicle", "with_payment" } =>
               call.result.kind = "config"

\* with_payment has returned a config that differs from its receiver.
C21_Witness ==
    /\ call.op = "with_payment"
    /\ call.result.kind = "config"
    /\ call.result.config # call.before
    /\ call.result.self = call.before

\* ---------------------------------------------------------------------
\* C25: the config returned by add_vehicle, remove_vehicle, set_default
\* or with_payment carries an updated_at equal to the time of that call,
\* and the created_at of the config it was derived from.
C25_UpdatedAtRefreshed ==
    (cmd = "config" /\ call.op # "none" /\ call.result.kind = "config") =>
        /\ call.result.config.updated_at = call.at
        /\ call.result.config.created_at = call.before.created_at

\* ---------------------------------------------------------------------
\* C22: load(p) of the file that save(c, p) wrote returns a config equal
\* to c in schema version, created_at, updated_at, state, owner and the
\* ordered vehicle list with every field of every entry; only payment may
\* differ.
LoadedSaved ==
    /\ cmd = "config"
    /\ call.op = "load"
    /\ call.file = save(call.before, call.key)

C22_RoundTrip ==
    LoadedSaved =>
        /\ call.result.kind = "config"
        /\ [ call.result.config EXCEPT !.payment = NoPayment ]
               = [ call.before EXCEPT !.payment = NoPayment ]

\* ---------------------------------------------------------------------
\* C23: the document save writes is the one it writes for the same config
\* without a payment and has no payment field, and every config load
\* returns has no payment.
C23_NoPaymentOnDisk ==
    cmd = "config" =>
        /\ disk.kind = "file" => "payment" \notin DOMAIN disk.plain
        /\ call.op = "save" =>
               disk.plain =
                   model_dump([ call.before EXCEPT !.payment = NoPayment ])
        /\ (call.op = "load" /\ call.result.kind = "config") =>
               call.result.config.payment = NoPayment

\* A config with a payment attached was saved and loaded back.
C23_Witness ==
    /\ LoadedSaved
    /\ call.before.payment # NoPayment
    /\ call.result.kind = "config"
    /\ call.result.config.payment = NoPayment

\* ---------------------------------------------------------------------
\* C26: on every page BaseProvider.has_captcha returns true exactly when
\* CaptchaSolver.detect returns true.
C26_DetectorsAgree ==
    HasCaptcha(page.markers) = Detect(page.markers)

\* ---------------------------------------------------------------------
\* C28: for every raw plate p that VehicleInfo accepts and whose
\* normalized form VehicleInfo(plate=p).plate is the plate of an entry,
\* get_vehicle(p) returns an entry with that plate, remove_vehicle(p)
\* finds it (and removes exactly the entries with that plate when it
\* returns), and set_default(p) marks exactly the entries with that plate.
Addressed ==
    /\ cmd = "config"
    /\ call.op \in { "get_vehicle", "remove_vehicle", "set_default" }
    /\ normalize_plate(call.plate).kind = "plate"
    /\ \E i \in 1..Len(call.before.vehicles) :
           call.before.vehicles[i].plate = normalize_plate(call.plate).plate

C28_LookupNormalizesLikeConstruction ==
    Addressed =>
        LET stored == normalize_plate(call.plate).plate
            r == call.result
        IN  /\ call.op = "get_vehicle" =>
                   r.kind = "entry" /\ r.entry.plate = stored
            /\ call.op = "remove_vehicle" =>
                   /\ r.kind = "ValueError" =>
                          r.msg = "Cannot remove the last vehicle"
                   /\ r.kind = "config" =>
                          \A i \in 1..Len(r.config.vehicles) :
                              r.config.vehicles[i].plate # stored
            /\ call.op = "set_default" =>
                   /\ r.kind = "config"
                   /\ \A i \in 1..Len(r.config.vehicles) :
                          r.config.vehicles[i].is_default
                              = (r.config.vehicles[i].plate = stored)

\* ---------------------------------------------------------------------
\* C24: in status --all no session of an earlier vehicle is running while
\* a later vehicle is checked, and every vehicle's check starts with
\* nothing launched: no driver, no browser, no context, no page.
C24_OneSessionAtATime ==
    cmd = "status" =>
        /\ ~leaked
        /\ pc = "launch_playwright" =>
               ~playwright /\ ~browser /\ ~context /\ ~pageOpen

\* A later vehicle is being checked in its own running session.
C24_Witness ==
    /\ cmd = "status"
    /\ todo.done > 0
    /\ playwright /\ browser /\ context /\ pageOpen
    /\ pc = "st_parse"
    /\ ~leaked

C30_StatusShape ==
    (cmd = "parse" /\ fnResult # NotCalled) =>
        /\ fnResult.kind \in { "status", "DMVError" }
        /\ fnResult.kind = "status" =>
               /\ fnResult.status.plate = text.plate
               /\ fnResult.status.vin_last5 = text.vin_last5
               /\ fnResult.status.status_message # << >>
               /\ fnResult.status.status
                      \in { "CURRENT", "PENDING", "HOLD", "EXPIRED" }
               /\ fnResult.status.expiration_date = "None"
               /\ fnResult.status.days_until_expiry = "None"
               /\ fnResult.status.vehicle_description = "None"
               /\ fnResult.status.hold_reason = "None"
        /\ ( \/ ~text.on.fieldset
             \/ \A i \in 1..Len(text.on.paragraphs) :
                    \A j \in 1..Len(text.on.paragraphs[i]) :
                        text.on.paragraphs[i][j] \in { " ", "\n", "\t" } )
               => fnResult.kind = "DMVError"

\* A status was built from a page that mixes blank and padded paragraphs.
C30_Witness ==
    /\ cmd = "parse"
    /\ fnResult # NotCalled
    /\ fnResult.kind = "status"
    /\ fnResult.status.status = "CURRENT"
    /\ Len(text.on.paragraphs) = 2
    /\ text.on.paragraphs[1] = << " ", "\n" >>
    /\ fnResult.status.status_message = Lit.was_mailed

\* ---------------------------------------------------------------------
\* C29: whatever writes and deletes have happened, a payment retrieve
\* returns is one of the payments that were passed to store, and exists()
\* is true only when retrieve() returns a payment.
C29_RetrieveIsOneStoredPayment ==
    cmd = "keychain" =>
        /\ kc.seen.retrieve.kind = "payment" =>
               kc.seen.retrieve.payment \in kc.stored
        /\ kc.seen.exists => kc.seen.retrieve.kind = "payment"

====
